---------------------------- MODULE Spec2Model ----------------------------
(***************************************************************************)
(* AgentMemory: an MCP memory server backed by SQLite (better-sqlite3), an *)
(* FTS5 external-content index kept by triggers, and a dated file store.   *)
(*                                                                         *)
(* Strings are sequences of one-character strings, so that trimming,       *)
(* lower-casing, splitting, joining, slugging and tokenizing are computed  *)
(* as the code computes them.  A path is [dir |-> day, name |-> string]:   *)
(* join(baseDir, year, month, day, name) is injective in (day, name).      *)
(***************************************************************************)
EXTENDS Integers, Sequences, FiniteSets, TLC

\* ------------------------------------------------------------ bounds ----
MaxId == 2          \* at most this many ids are ever assigned
MaxSaved == 3       \* the same, where only inserts and deletes are followed
MaxRawLen == 3     \* raw keyword lists of the normalization laws: at most this long
MaxPending == 2     \* calls that have begun and not ended, at most
MaxQueryLen == 3   \* the queries handed to sanitize: at most this long
MaxTime == 1        \* the clock takes the values 0..MaxTime
TicksPerDay == 1    \* clock ticks (seconds) that fall on one calendar day

\* ------------------------------------------------- program constants ----
MaxKeywords == 10   \* .slice(0,10) of the normalized keyword list
SlugWords == 8      \* .slice(0,8) of the summary's words
SlugMaxLen == 50    \* .slice(0,50) of the slug

SummaryWeightDefault == 8   \* summaryWeight default 0.8, in tenths
KeywordWeightDefault == 20  \* keywordWeight default 2.0, in tenths
LambdaDefault == 10         \* lambda default 1.0, in tenths
ReadLimitBytes == 1048576   \* readLimited: limitBytes = 1024 * 1024

MinLen == 1              \* z.string().min(1)
SummaryMaxLen == 1000    \* summary: .max(1000)
KeywordsMax == 10        \* keywords: z.array(z.string()).max(10)
LimitMax == 100          \* limit: .positive().max(100)

\* ----------------------------------------------------------- strings ----
None == <<"<none>">>        \* an undefined string / SQL NULL
NoList == <<None>>           \* an undefined array of strings

Str1(c) == <<c>>
S_md == <<".", "m", "d">>
S_sep == <<",", " ">>          \* the ', ' separator of GROUP_CONCAT / split

Uppers == <<"A", "B", "C", "D", "E", "F", "G", "H", "I", "J", "K", "L", "M",
            "N", "O", "P", "Q", "R", "S", "T", "U", "V", "W", "X", "Y", "Z">>
Lowers == <<"a", "b", "c", "d", "e", "f", "g", "h", "i", "j", "k", "l", "m",
            "n", "o", "p", "q", "r", "s", "t", "u", "v", "w", "x", "y", "z">>
DigitChars == <<"0", "1", "2", "3", "4", "5", "6", "7", "8", "9">>

UpperSet == {Uppers[i] : i \in DOMAIN Uppers}
LowerAlnumSet == {Lowers[i] : i \in DOMAIN Lowers} \cup {DigitChars[i] : i \in DOMAIN DigitChars}
LowerOf == [c \in UpperSet |-> Lowers[CHOOSE i \in DOMAIN Uppers : Uppers[i] = c]]

Lower(c) == IF c \in UpperSet THEN LowerOf[c] ELSE c

IsLowerAlnum(c) == c \in LowerAlnumSet
IsAlnum(c) == IsLowerAlnum(Lower(c))
IsSpace(c) == c \in {" ", "\t"}

ToLowerCase(s) == [i \in 1..Len(s) |-> Lower(s[i])]

RECURSIVE TrimStart(_)
TrimStart(s) == IF s # <<>> /\ IsSpace(Head(s)) THEN TrimStart(Tail(s)) ELSE s

RECURSIVE TrimEnd(_)
TrimEnd(s) ==
  IF s # <<>> /\ IsSpace(s[Len(s)]) THEN TrimEnd(SubSeq(s, 1, Len(s) - 1)) ELSE s

Trim(s) == TrimEnd(TrimStart(s))

StartsWith(s, p) == Len(s) >= Len(p) /\ SubSeq(s, 1, Len(p)) = p
EndsWith(s, p) == Len(s) >= Len(p) /\ SubSeq(s, Len(s) - Len(p) + 1, Len(s)) = p

RECURSIVE Join(_, _)
Join(parts, sep) ==
  IF parts = <<>> THEN <<>>
  ELSE IF Len(parts) = 1 THEN parts[1]
  ELSE parts[1] \o sep \o Join(Tail(parts), sep)

\* String.prototype.split(sep) for a non-empty literal separator.
RECURSIVE SplitAcc(_, _, _, _)
SplitAcc(s, sep, cur, acc) ==
  IF s = <<>> THEN Append(acc, cur)
  ELSE IF StartsWith(s, sep)
       THEN SplitAcc(SubSeq(s, Len(sep) + 1, Len(s)), sep, <<>>, Append(acc, cur))
       ELSE SplitAcc(Tail(s), sep, Append(cur, Head(s)), acc)

Split(s, sep) == SplitAcc(s, sep, <<>>, <<>>)

\* String.prototype.split(/\s+/): a run of whitespace is one separator.
RECURSIVE SplitWsAcc(_, _, _)
SplitWsAcc(s, cur, acc) ==
  IF s = <<>> THEN Append(acc, cur)
  ELSE IF IsSpace(Head(s))
       THEN SplitWsAcc(TrimStart(s), <<>>, Append(acc, cur))
       ELSE SplitWsAcc(Tail(s), Append(cur, Head(s)), acc)

SplitWs(s) == SplitWsAcc(s, <<>>, <<>>)

Slice(s, n) == SubSeq(s, 1, IF Len(s) < n THEN Len(s) ELSE n)

Range(f) == {f[i] : i \in DOMAIN f}

Min(a, b) == IF a <= b THEN a ELSE b

\* Array filter/dedupe in first-occurrence order ([...new Set(xs)]).
RECURSIVE Dedupe(_, _)
Dedupe(xs, acc) ==
  IF xs = <<>> THEN acc
  ELSE Dedupe(Tail(xs), IF Head(xs) \in Range(acc) THEN acc ELSE Append(acc, Head(xs)))

Digit(n) == Str1(DigitChars[n + 1])

\* `${i}` for a non-negative integer.
RECURSIVE IntToStr(_)
IntToStr(n) == IF n < 10 THEN Digit(n) ELSE IntToStr(n \div 10) \o Digit(n % 10)

\* ---------------------------------------------------- pure functions ----
S_memory == <<"m", "e", "m", "o", "r", "y">>
S_note_md == <<"n", "o", "t", "e", ".", "m", "d">>

\* .replace(/[^a-z0-9-]+/g,'-'): every maximal run of other characters
\* becomes one hyphen.
RECURSIVE ReplaceUnsafe(_, _)
ReplaceUnsafe(s, inRun) ==
  IF s = <<>> THEN <<>>
  ELSE IF IsLowerAlnum(Head(s)) \/ Head(s) = "-"
       THEN <<Head(s)>> \o ReplaceUnsafe(Tail(s), FALSE)
       ELSE (IF inRun THEN <<>> ELSE <<"-">>) \o ReplaceUnsafe(Tail(s), TRUE)

\* .replace(/-+/g,'-')
RECURSIVE CollapseHyphens(_)
CollapseHyphens(s) ==
  IF s = <<>> THEN <<>>
  ELSE IF Head(s) = "-" /\ Len(s) > 1 /\ s[2] = "-" THEN CollapseHyphens(Tail(s))
  ELSE <<Head(s)>> \o CollapseHyphens(Tail(s))

\* .replace(/^-|-$/g,''): one leading and one trailing hyphen.
StripHyphens(s) ==
  LET a == IF s # <<>> /\ Head(s) = "-" THEN Tail(s) ELSE s
  IN  IF a # <<>> /\ a[Len(a)] = "-" THEN SubSeq(a, 1, Len(a) - 1) ELSE a

\* insertMemory: the slug of a summary.
Slug(summary) ==
  LET joined == Join(Slice(SplitWs(ToLowerCase(summary)), SlugWords), <<"-">>)
      base == IF joined = <<>> THEN S_memory ELSE joined
  IN  Slice(StripHyphens(CollapseHyphens(ReplaceUnsafe(base, FALSE))), SlugMaxLen)

RECURSIVE TrimLowerNonEmpty(_)
TrimLowerNonEmpty(raw) ==
  IF raw = <<>> THEN <<>>
  ELSE LET k == ToLowerCase(Trim(Head(raw)))
       IN  (IF k = <<>> THEN <<>> ELSE <<k>>) \o TrimLowerNonEmpty(Tail(raw))

RECURSIVE TrimNonEmpty(_)
TrimNonEmpty(raw) ==
  IF raw = <<>> THEN <<>>
  ELSE LET k == Trim(Head(raw))
       IN  (IF k = <<>> THEN <<>> ELSE <<k>>) \o TrimNonEmpty(Tail(raw))

\* A normalization that leaves the case of the keywords as it is.
NormalizeKeywordsKeepCase(raw) == Slice(Dedupe(TrimNonEmpty(raw), <<>>), MaxKeywords)

\* [...new Set(keywords.map(k=>k.trim().toLowerCase()).filter(Boolean))].slice(0,10)
NormalizeKeywords(raw) == Slice(Dedupe(TrimLowerNonEmpty(raw), <<>>), MaxKeywords)

\* The unicode61 tokenizer: maximal runs of letters and digits, case-folded.
RECURSIVE TokenizeAcc(_, _, _)
TokenizeAcc(s, cur, acc) ==
  IF s = <<>> THEN (IF cur = <<>> THEN acc ELSE Append(acc, cur))
  ELSE IF IsAlnum(Head(s))
       THEN TokenizeAcc(Tail(s), Append(cur, Lower(Head(s))), acc)
       ELSE TokenizeAcc(Tail(s), <<>>, IF cur = <<>> THEN acc ELSE Append(acc, cur))

\* A NULL value has no text, hence no tokens.
Tokenize(text) == IF text = None THEN <<>> ELSE TokenizeAcc(text, <<>>, <<>>)

\* path.basename for names without a trailing separator.
RECURSIVE Basename(_)
Basename(s) ==
  IF \E i \in DOMAIN s : s[i] = "/"
  THEN Basename(SubSeq(s, (CHOOSE i \in DOMAIN s : s[i] = "/") + 1, Len(s)))
  ELSE s

\* finalFileName.replace(/\.md$/i, '')
Stem(name) ==
  IF EndsWith(ToLowerCase(name), S_md) THEN SubSeq(name, 1, Len(name) - Len(S_md))
  ELSE name

MkPath(dir, name) == [dir |-> dir, name |-> name]

\* saveDated's loop: the first of stem-i.md, stem-(i+1).md, ... that is free.
RECURSIVE Suffixed(_, _, _, _)
Suffixed(existing, dir, stem, i) ==
  LET candidate == MkPath(dir, stem \o <<"-">> \o IntToStr(i) \o S_md)
  IN  IF candidate \in existing THEN Suffixed(existing, dir, stem, i + 1) ELSE candidate

\* A saveDated that does not probe for an existing file.
AssignPathNoProbe(existing, basenameHint, dir) ==
  LET rawName == Basename(IF basenameHint = <<>> THEN S_note_md ELSE basenameHint)
  IN  MkPath(dir, IF EndsWith(rawName, S_md) THEN rawName ELSE rawName \o S_md)

\* saveDated: the path the content is written to, given the existing paths.
AssignPath(existing, basenameHint, dir) ==
  LET rawName == Basename(IF basenameHint = <<>> THEN S_note_md ELSE basenameHint)
      finalFileName == IF EndsWith(rawName, S_md) THEN rawName ELSE rawName \o S_md
      candidate == MkPath(dir, finalFileName)
  IN  IF candidate \in existing
      THEN Suffixed(existing, dir, Stem(finalFileName), 1)
      ELSE candidate

\* ------------------------------------------------------------- state ----
VARIABLES
  memories,     \* table memories: id -> [file_path, summary, created_at]
  keywords,     \* table keywords: set of <<memory_id, keyword>>
  fts_index,    \* memories_fts postings: set of <<rowid, column, token>>
  fts_docsize,  \* memories_fts_docsize: rowid -> <<summary size, keywords size>>
  fts_nrow,     \* memories_fts row counter (nTotalRow)
  seq,          \* sqlite_sequence entry of memories (AUTOINCREMENT)
  files,        \* the content files: path -> content
  dirs,         \* the dated directories that exist
  now,          \* the clock, in seconds
  last,         \* the response to the latest request
  pending       \* the calls that have begun and not ended: an update_memory at
                \* its await, a saveDated between its probe and its write

dbvars == <<memories, keywords, fts_index, fts_docsize, fts_nrow, seq>>
vars == <<memories, keywords, fts_index, fts_docsize, fts_nrow, seq, files, dirs,
          now, last, pending>>

OK == "ok"

\* The database as one value: what a transaction works on and rolls back to.
Db == [memories |-> memories, keywords |-> keywords, fts_index |-> fts_index,
       fts_docsize |-> fts_docsize, fts_nrow |-> fts_nrow, seq |-> seq, err |-> OK]

EmptyFn == [x \in {} |-> x]

\* A connection that does not enforce foreign keys.
foreign_keys_off == FALSE

\* new Database(path): better-sqlite3's bundled SQLite is built with
\* SQLITE_DEFAULT_FOREIGN_KEYS=1 and openDatabase issues no foreign_keys
\* pragma, so foreign keys are enforced on the connection.
foreign_keys == TRUE

Fail(d, e) == [d EXCEPT !.err = e]

RECURSIVE SetToSeq(_)
SetToSeq(S) ==
  IF S = {} THEN <<>>
  ELSE LET x == CHOOSE y \in S : TRUE IN <<x>> \o SetToSeq(S \ {x})

KeywordsOf(kws, id) == {r[2] : r \in {q \in kws : q[1] = id}}

\* COALESCE((SELECT GROUP_CONCAT(keyword, ' ') FROM keywords WHERE memory_id = id), '')
KeywordsConcat(d, id) == Join(SetToSeq(KeywordsOf(d.keywords, id)), <<" ">>)

\* (SELECT summary FROM memories WHERE id = id): NULL when there is no such row.
SummaryOf(d, id) == IF id \in DOMAIN d.memories THEN d.memories[id].summary ELSE None

Postings(rowid, col, text) == {<<rowid, col, t>> : t \in Range(Tokenize(text))}

\* INSERT INTO memories_fts(rowid, summary, keywords) VALUES (...): the tokens of
\* both columns are added to the index, the sizes are stored (REPLACE INTO
\* docsize), the row counter goes up.
FtsInsert(d, rowid, summary, kwtext) ==
  IF d.err # OK THEN d
  ELSE LET st == Tokenize(summary)
           kt == Tokenize(kwtext)
       IN  [d EXCEPT
             !.fts_index = @ \cup {<<rowid, "summary", st[i]>> : i \in DOMAIN st}
                             \cup {<<rowid, "keywords", kt[i]>> : i \in DOMAIN kt},
             !.fts_docsize = [r \in DOMAIN @ \cup {rowid} |->
                                IF r = rowid THEN <<Len(st), Len(kt)>> ELSE @[r]],
             !.fts_nrow = @ + 1]

\* INSERT INTO memories_fts(memories_fts, rowid, summary, keywords)
\*   VALUES ('delete', rowid, summary, kwtext):
\* FTS5 removes from the index the tokens of the values it is handed (an
\* external-content table does not read them back), fails SQLITE_CORRUPT_VTAB
\* when its row counter is below one, and drops the docsize row.
FtsDeleteCmd(d, rowid, summary, kwtext) ==
  IF d.err # OK THEN d
  ELSE IF d.fts_nrow < 1 THEN Fail(d, "SQLITE_CORRUPT_VTAB")
  ELSE [d EXCEPT
         !.fts_index = (@ \ Postings(rowid, "summary", summary))
                         \ Postings(rowid, "keywords", kwtext),
         !.fts_docsize = [r \in DOMAIN @ \ {rowid} |-> @[r]],
         !.fts_nrow = @ - 1]

\* The triggers name only (memories_fts, rowid) in the 'delete' command: the summary
\* and keywords values FTS5 is handed are NULL.
FtsDeleteRow(d, rowid) == FtsDeleteCmd(d, rowid, None, None)

\* trigger memories_ai
memories_ai(d, id) == FtsInsert(d, id, d.memories[id].summary, KeywordsConcat(d, id))

\* trigger memories_ad
memories_ad(d, id) == FtsDeleteRow(d, id)

\* trigger memories_au
memories_au(d, id) ==
  FtsInsert(FtsDeleteRow(d, id), id, d.memories[id].summary, KeywordsConcat(d, id))

\* trigger keywords_ai
keywords_ai(d, memory_id) ==
  FtsInsert(FtsDeleteRow(d, memory_id), memory_id, SummaryOf(d, memory_id),
            KeywordsConcat(d, memory_id))

\* trigger keywords_ad
keywords_ad(d, memory_id) ==
  FtsInsert(FtsDeleteRow(d, memory_id), memory_id, SummaryOf(d, memory_id),
            KeywordsConcat(d, memory_id))

\* The same insert into a table whose file_path is not UNIQUE.
InsertMemoryRowNoUnique(d, file_path, summary, t) ==
  IF d.err # OK THEN d
  ELSE LET id == d.seq + 1
           row == [file_path |-> file_path, summary |-> summary, created_at |-> t]
       IN  memories_ai([d EXCEPT !.memories = [i \in DOMAIN @ \cup {id} |->
                                                 IF i = id THEN row ELSE @[i]],
                                 !.seq = id], id)

\* The same insert into a table whose id is not AUTOINCREMENT: the new rowid
\* is one more than the largest rowid in the table.
InsertMemoryRowMaxRowid(d, file_path, summary, t) ==
  IF d.err # OK THEN d
  ELSE IF \E i \in DOMAIN d.memories : d.memories[i].file_path = file_path
       THEN Fail(d, "SQLITE_CONSTRAINT_UNIQUE")
  ELSE LET id == IF DOMAIN d.memories = {} THEN 1
                 ELSE 1 + (CHOOSE i \in DOMAIN d.memories :
                             \A j \in DOMAIN d.memories : j <= i)
           row == [file_path |-> file_path, summary |-> summary, created_at |-> t]
       IN  memories_ai([d EXCEPT !.memories = [i \in DOMAIN @ \cup {id} |->
                                                 IF i = id THEN row ELSE @[i]],
                                 !.seq = IF id > @ THEN id ELSE @], id)

\* INSERT INTO memories (file_path, summary) VALUES (?, ?) RETURNING id
InsertMemoryRow(d, file_path, summary, t) ==
  IF d.err # OK THEN d
  ELSE IF \E i \in DOMAIN d.memories : d.memories[i].file_path = file_path
       THEN Fail(d, "SQLITE_CONSTRAINT_UNIQUE")
  ELSE LET id == d.seq + 1
           row == [file_path |-> file_path, summary |-> summary, created_at |-> t]
       IN  memories_ai([d EXCEPT !.memories = [i \in DOMAIN @ \cup {id} |->
                                                 IF i = id THEN row ELSE @[i]],
                                 !.seq = id], id)

\* INSERT INTO keywords (memory_id, keyword) VALUES (?, ?): the primary key is
\* checked on the insert, the trigger runs, the foreign key is checked as the
\* statement ends.
InsertKeywordRow(d, id, k) ==
  IF d.err # OK THEN d
  ELSE IF <<id, k>> \in d.keywords THEN Fail(d, "SQLITE_CONSTRAINT_PRIMARYKEY")
  ELSE LET e == keywords_ai([d EXCEPT !.keywords = @ \cup {<<id, k>>}], id)
       IN  IF e.err # OK THEN Fail(d, e.err)
           ELSE IF foreign_keys /\ id \notin DOMAIN d.memories
                THEN Fail(d, "SQLITE_CONSTRAINT_FOREIGNKEY")
           ELSE e

\* for (const k of keywords) insert.run(id, k)
RECURSIVE InsertKeywordRows(_, _, _)
InsertKeywordRows(d, id, ks) ==
  IF ks = <<>> THEN d ELSE InsertKeywordRows(InsertKeywordRow(d, id, Head(ks)), id, Tail(ks))

\* The keyword rows of id are deleted one by one, keywords_ad after each.
RECURSIVE DeleteKeywordRowsSeq(_, _, _)
DeleteKeywordRowsSeq(d, id, ks) ==
  IF ks = <<>> \/ d.err # OK THEN d
  ELSE DeleteKeywordRowsSeq(
         keywords_ad([d EXCEPT !.keywords = @ \ {<<id, Head(ks)>>}], id), id, Tail(ks))

\* DELETE FROM keywords, with no WHERE: the keyword rows of every record go.
DeleteKeywordRowsAll(d, id) ==
  IF d.err # OK THEN d
  ELSE keywords_ad([d EXCEPT !.keywords = {}], id)

\* DELETE FROM keywords WHERE memory_id = ?
DeleteKeywordRows(d, id) ==
  IF d.err # OK THEN d
  ELSE LET e == DeleteKeywordRowsSeq(d, id, SetToSeq(KeywordsOf(d.keywords, id)))
       IN  IF e.err # OK THEN Fail(d, e.err) ELSE e

\* An INSERT OR REPLACE in the place of the UPDATE: an id without a row gets one.
UpdateSummaryRowUpsert(d, id, summary, t) ==
  IF d.err # OK THEN d
  ELSE LET old == IF id \in DOMAIN d.memories THEN d.memories[id].file_path
                    ELSE MkPath(-1, <<>>)
           row == [file_path |-> old, summary |-> summary, created_at |-> t]
       IN  memories_ai([d EXCEPT !.memories = [i \in DOMAIN @ \cup {id} |->
                                                 IF i = id THEN row ELSE @[i]]], id)

\* UPDATE memories SET summary = ?, created_at=CURRENT_TIMESTAMP WHERE id = ?
UpdateSummaryRow(d, id, summary, t) ==
  IF d.err # OK \/ id \notin DOMAIN d.memories THEN d
  ELSE LET e == memories_au([d EXCEPT !.memories[id].summary = summary,
                                      !.memories[id].created_at = t], id)
       IN  IF e.err # OK THEN Fail(d, e.err) ELSE e

\* ON DELETE CASCADE of keywords.memory_id, when foreign keys are enforced.
Cascade(d, id) ==
  IF foreign_keys THEN DeleteKeywordRowsSeq(d, id, SetToSeq(KeywordsOf(d.keywords, id)))
  ELSE d

\* DELETE FROM memories WHERE id = ?: the row goes, then the foreign key
\* action runs, then the AFTER DELETE trigger.
DeleteMemoryRow(d, id) ==
  IF d.err # OK \/ id \notin DOMAIN d.memories THEN d
  ELSE LET e == memories_ad(
                  Cascade([d EXCEPT !.memories = [i \in DOMAIN @ \ {id} |-> @[i]]], id),
                  id)
       IN  IF e.err # OK THEN Fail(d, e.err) ELSE e

\* -------------------------------------------------------- repository ----
\* Statements run outside a transaction: what ran before the failure stays.
TransactionNoRollback(before, after) == after

\* this.db.transaction(fn)(): commit when fn returns, roll back when it throws.
Transaction(before, after) == IF after.err = OK THEN after ELSE Fail(before, after.err)

Truthy(v) == v # None /\ v # <<>>

\* MemoryRepository.insert, inside its transaction.
InsertTx(d, file_path, summary, kws, t) ==
  LET m == InsertMemoryRow(d, file_path, summary, t)
  IN  InsertKeywordRows(m, m.seq, kws)

\* An update that replaces the keywords only when the list is non-empty.
UpdateTxIfNonEmpty(d, id, summary, kws, t) ==
  LET a == IF Truthy(summary) THEN UpdateSummaryRow(d, id, summary, t) ELSE d
  IN  IF kws # NoList /\ kws # <<>>
      THEN InsertKeywordRows(DeleteKeywordRows(a, id), id, kws)
      ELSE a

\* MemoryRepository.update, inside its transaction.
UpdateTx(d, id, summary, kws, t) ==
  LET a == IF Truthy(summary) THEN UpdateSummaryRow(d, id, summary, t) ELSE d
  IN  IF kws # NoList THEN InsertKeywordRows(DeleteKeywordRows(a, id), id, kws) ELSE a

RepoInsert(d, file_path, summary, kws, t) ==
  Transaction(d, InsertTx(d, file_path, summary, kws, t))

RepoUpdate(d, id, summary, kws, t) == Transaction(d, UpdateTx(d, id, summary, kws, t))

\* MemoryRepository.delete: one statement, atomic by itself.
RepoDelete(d, id) == DeleteMemoryRow(d, id)

\* GROUP_CONCAT(k.keyword, ', ') over the LEFT JOIN: NULL without keyword rows.
KwsColumn(d, id) ==
  IF KeywordsOf(d.keywords, id) = {} THEN None
  ELSE Join(SetToSeq(KeywordsOf(d.keywords, id)), S_sep)

NotFound == [found |-> FALSE]

\* MemoryRepository.get: the row and kws split at ', ', or undefined.
RepoGet(d, id) ==
  IF id \notin DOMAIN d.memories THEN NotFound
  ELSE LET kws == KwsColumn(d, id)
       IN  [found |-> TRUE,
            id |-> id,
            file_path |-> d.memories[id].file_path,
            summary |-> d.memories[id].summary,
            created_at |-> d.memories[id].created_at,
            keywords |-> IF Truthy(kws) THEN Split(kws, S_sep) ELSE <<>>]

\* ORDER BY m.created_at DESC over the scan of memories: the ids by falling
\* created_at; the sorter keeps rows of one created_at in the order the scan
\* hands them over, which is by id.
RECURSIVE ListOrder(_, _)
ListOrder(d, S) ==
  IF S = {} THEN <<>>
  ELSE LET first == CHOOSE i \in S : \A j \in S \ {i} :
                      \/ d.memories[i].created_at > d.memories[j].created_at
                      \/ d.memories[i].created_at = d.memories[j].created_at /\ i < j
       IN  <<first>> \o ListOrder(d, S \ {first})

\* rows.map(r => ({ ...r, keywords: r.kws ? r.kws.split(', ') : [] }))
ListRow(d, id) ==
  LET kws == KwsColumn(d, id)
  IN  [id |-> id,
       file_path |-> d.memories[id].file_path,
       summary |-> d.memories[id].summary,
       created_at |-> d.memories[id].created_at,
       keywords |-> IF Truthy(kws) THEN Split(kws, S_sep) ELSE <<>>]

\* LIMIT limit OFFSET offset of the ordered rows.
ListPage(d, limit, offset) ==
  LET all == ListOrder(d, DOMAIN d.memories)
      from == Min(offset, Len(all))
      to == Min(offset + limit, Len(all))
  IN  [i \in 1..(to - from) |-> ListRow(d, all[from + i])]

\* A list whose statement has no OFFSET.
RepoListNoOffset(d, limit, offset) == ListPage(d, limit, 0)

\* MemoryRepository.list
RepoList(d, limit, offset) == ListPage(d, limit, offset)

\* MemoryRepository.count
RepoCount(d) == Cardinality(DOMAIN d.memories)

\* -------------------------------------------------------- file store ----
DayOf(t) == t \div TicksPerDay

\* FileStore.saveDated(basenameHint, content, now): where it writes.
SavePath(fs, basenameHint, t) == AssignPath(DOMAIN fs, basenameHint, DayOf(t))

\* A write that leaves a file that is already there as it is.
WriteFileExclusive(fs, path, content) ==
  [q \in DOMAIN fs \cup {path} |-> IF q \in DOMAIN fs THEN fs[q] ELSE content]

\* writeFileSync(path, content): creates or overwrites.
WriteFile(fs, path, content) ==
  [q \in DOMAIN fs \cup {path} |-> IF q = path THEN content ELSE fs[q]]

\* (size / 1024 / 1024).toFixed(2): megabytes, rounded to hundredths.
ToFixed2MB(size) ==
  LET h == (size * 200 + ReadLimitBytes) \div (2 * ReadLimitBytes)
  IN  IntToStr(h \div 100) \o <<".">> \o IntToStr((h % 100) \div 10) \o IntToStr(h % 10)

TooLarge(size) ==
  <<"[File too large: ">> \o ToFixed2MB(size) \o <<"MB. Contents not loaded.]">>

ReadError == <<"[Error reading file: EACCES]">>

\* A readLimited whose catch answers as for a path without a file.
ReadLimitedSilent(fs, path, limitBytes, readOk) ==
  IF path \notin DOMAIN fs \/ ~readOk
  THEN [file_exists |-> FALSE, file_size |-> -1, file_contents |-> None]
  ELSE IF Len(fs[path]) > limitBytes
  THEN [file_exists |-> TRUE, file_size |-> Len(fs[path]),
        file_contents |-> TooLarge(Len(fs[path]))]
  ELSE [file_exists |-> TRUE, file_size |-> Len(fs[path]), file_contents |-> fs[path]]

\* A readLimited that reads whatever the size is.
ReadLimitedNoCap(fs, path, limitBytes, readOk) ==
  IF path \notin DOMAIN fs
  THEN [file_exists |-> FALSE, file_size |-> -1, file_contents |-> None]
  ELSE IF ~readOk
  THEN [file_exists |-> FALSE, file_size |-> -1, file_contents |-> ReadError]
  ELSE [file_exists |-> TRUE, file_size |-> Len(fs[path]), file_contents |-> fs[path]]

\* FileStore.readLimited(path, limitBytes).  readOk is whether statSync and
\* readFileSync succeed on a file that exists.  file_size -1 and file_contents
\* None stand for fields the result does not have.
ReadLimited(fs, path, limitBytes, readOk) ==
  IF path \notin DOMAIN fs
  THEN [file_exists |-> FALSE, file_size |-> -1, file_contents |-> None]
  ELSE IF ~readOk
  THEN [file_exists |-> FALSE, file_size |-> -1, file_contents |-> ReadError]
  ELSE IF Len(fs[path]) > limitBytes
  THEN [file_exists |-> TRUE, file_size |-> Len(fs[path]),
        file_contents |-> TooLarge(Len(fs[path]))]
  ELSE [file_exists |-> TRUE, file_size |-> Len(fs[path]), file_contents |-> fs[path]]

\* ------------------------------------------------------------- paths ----
\* A path string is its list of segments, each a string, and whether it
\* starts at the root.  The file system tells names apart by their case.
Cwd == << <<"w">> >>            \* process.cwd()
baseContentDir == [abs |-> FALSE, segs |-> << <<".">>, <<"d", "a", "t", "a">> >>]

S_dot == <<".">>
S_dotdot == <<".", ".">>

\* path.resolve's normalisation: '.' is dropped, '..' drops the segment
\* before it and stays at the root.
RECURSIVE NormalizeSegs(_, _)
NormalizeSegs(segs, acc) ==
  IF segs = <<>> THEN acc
  ELSE NormalizeSegs(Tail(segs),
         IF Head(segs) = S_dot THEN acc
         ELSE IF Head(segs) = S_dotdot
              THEN (IF acc = <<>> THEN acc ELSE SubSeq(acc, 1, Len(acc) - 1))
         ELSE Append(acc, Head(segs)))

\* path.resolve(p): the absolute path, as its segments below the root.
Resolve(p) == NormalizeSegs((IF p.abs THEN <<>> ELSE Cwd) \o p.segs, <<>>)

\* toLowerCase() of a path string.
PathToLowerCase(segs) == [i \in DOMAIN segs |-> ToLowerCase(segs[i])]

\* target.startsWith(base + sep): the segments of base and then at least
\* one more.
StartsWithDir(target, base) ==
  Len(target) > Len(base) /\ SubSeq(target, 1, Len(base)) = base

\* resolvedTarget.toLowerCase().startsWith(resolvedBase.toLowerCase())
IsWithinBase(resolvedTarget, resolvedBase) ==
  StartsWithDir(PathToLowerCase(resolvedTarget), PathToLowerCase(resolvedBase))

\* join(this.baseDir, year, month, day, name), resolved; the three date
\* segments are one segment here, the number of the day.
DiskPath(p) == Resolve([abs |-> FALSE, segs |-> baseContentDir.segs \o <<IntToStr(p.dir), p.name>>])

\* Files of the machine that are not the store's.
OutsidePaths == {Cwd \o << <<"s">> >>,
                 Cwd \o << <<"D", "A", "T", "A">>, <<"s">> >>,
                 Cwd \o << <<"d", "a", "t", "a", "x">>, <<"s">> >>}
Secret == <<"s", "e", "c">>

\* The file system as the process sees it: the store's files and the others.
Disk(fs) ==
  [q \in {DiskPath(p) : p \in DOMAIN fs} \cup OutsidePaths |->
     IF q \in OutsidePaths THEN Secret
     ELSE fs[CHOOSE p \in DOMAIN fs : DiskPath(p) = q]]

\* ------------------------------------------------------------ inputs ----
Summaries == {<<"A">>, <<"a", " ", "1">>}
RawKeywordLists == {<<>>,
                    << <<"X">>, <<" ", "x", " ">> >>,
                    << <<"x", ",", " ", "y">> >>}
Contents == {<<"c", "1">>, <<"c", "2">>}
Ids == 1..MaxId
SavedIds == 1..MaxSaved

Queries == {<<"(", "a", ")">>}
BoostLists == {<<>>, << <<"Y">>, <<"y">> >>, << <<"x">>, <<"y">> >>}
SearchKeywordLists == {<< <<"X">>, <<" ", "x", " ">> >>,
                       << <<"y">> >>,
                       << <<"a">> >>}
Limits == {1, 2}
Offsets == {0, 1, 2}
Lambdas == {0, 3 * LambdaDefault}
FileContents == {<<"c">>, <<"c", "1">>, <<"c", "1", "2">>}
ReadLimits == {1, 2, ReadLimitBytes}
MissingPath == MkPath(0, <<"z", ".", "m", "d">>)
ReadFilePaths ==
  {[abs |-> FALSE, segs |-> << <<"d", "a", "t", "a">>, <<"0">>, <<"a", ".", "m", "d">> >>],
   [abs |-> TRUE,  segs |-> Cwd \o << <<"d", "a", "t", "a">>, <<"0">>, <<"a", ".", "m", "d">> >>],
   [abs |-> FALSE, segs |-> << <<"d", "a", "t", "a">>, <<"0">>, <<"A", ".", "M", "D">> >>],
   [abs |-> FALSE, segs |-> << <<"d", "a", "t", "a">> >>],
   [abs |-> FALSE, segs |-> << <<"d", "a", "t", "a">>, S_dotdot, <<"s">> >>],
   [abs |-> FALSE, segs |-> << <<"d", "a", "t", "a", "x">>, <<"s">> >>],
   [abs |-> FALSE, segs |-> << <<"D", "A", "T", "A">>, <<"s">> >>],
   [abs |-> TRUE,  segs |-> << <<"s">> >>]}
\* Raw keywords as clients write them, and the lists of them.
RawWords == {<<"F", "o", "o">>, <<" ", "f", "o", "o", " ">>, <<"B", "A", "R">>,
             <<"b", "a", "r">>, <<" ">>, <<>>}
RawLists == UNION {[1..n -> RawWords] : n \in 0..MaxRawLen}

\* The queries sanitize is handed: quotes, round and square brackets,
\* blanks and tabs, and a letter.
QueryChars == {"\"", "(", "]", " ", "\t", "a"}
QueryStrings == UNION {[1..n -> QueryChars] : n \in 0..MaxQueryLen}

\* Requests at and beyond the edges of the schemas: the ones a schema
\* accepts, and for each rule of a schema one that breaks only that rule.
LongString(n) == [i \in 1..n |-> "a"]
FooKeywords == << <<"F", "o", "o">>, <<" ", "f", "o", "o", " ">>, <<"B", "A", "R">> >>
TenKeywords == [i \in 1..KeywordsMax |-> <<"K">> \o IntToStr(i)]
ElevenKeywords == [i \in 1..(KeywordsMax + 1) |-> <<"K">> \o IntToStr(i)]
IdsV == {-1, 0} \cup Ids
InsertRequests ==
  {[content |-> <<"c", "1">>, summary |-> <<"A">>, keywords |-> FooKeywords],
   [content |-> <<"c", "1">>, summary |-> <<"A">>, keywords |-> TenKeywords],
   [content |-> <<>>,         summary |-> <<"A">>, keywords |-> <<>>],
   [content |-> <<"c", "1">>, summary |-> <<>>,    keywords |-> <<>>],
   [content |-> <<"c", "1">>, summary |-> LongString(SummaryMaxLen + 1), keywords |-> <<>>],
   [content |-> <<"c", "1">>, summary |-> <<"A">>, keywords |-> ElevenKeywords]}
UpdateFields ==
  {[content |-> None,         summary |-> None,    keywords |-> FooKeywords],
   [content |-> <<>>,         summary |-> None,    keywords |-> NoList],
   [content |-> None,         summary |-> <<>>,    keywords |-> NoList],
   [content |-> None,         summary |-> LongString(SummaryMaxLen + 1), keywords |-> NoList],
   [content |-> None,         summary |-> None,    keywords |-> ElevenKeywords],
   [content |-> None,         summary |-> None,    keywords |-> NoList]}
ListRequests ==
  {[limit |-> 1, offset |-> 0], [limit |-> LimitMax, offset |-> 1],
   [limit |-> 0, offset |-> 0], [limit |-> LimitMax + 1, offset |-> 0],
   [limit |-> 1, offset |-> -1]}
SearchDefaults ==
  [query |-> <<"a">>, keywords |-> <<>>, limit |-> 1,
   summaryWeight |-> SummaryWeightDefault, keywordWeight |-> KeywordWeightDefault,
   lambda |-> 0]
SearchRequests ==
  {SearchDefaults,
   [SearchDefaults EXCEPT !.limit = LimitMax],
   [SearchDefaults EXCEPT !.query = <<>>],
   [SearchDefaults EXCEPT !.keywords = ElevenKeywords],
   [SearchDefaults EXCEPT !.limit = 0],
   [SearchDefaults EXCEPT !.limit = LimitMax + 1],
   [SearchDefaults EXCEPT !.summaryWeight = 0],
   [SearchDefaults EXCEPT !.keywordWeight = 0],
   [SearchDefaults EXCEPT !.lambda = -1]}
NoPath == MkPath(-1, <<>>)
NoRes == [id |-> 0, file_path |-> NoPath]

Init ==
  /\ memories = EmptyFn
  /\ keywords = {}
  /\ fts_index = {}
  /\ fts_docsize = EmptyFn
  /\ fts_nrow = 0
  /\ seq = 0
  /\ files = EmptyFn
  /\ dirs = {}
  /\ now = 0
  /\ last = [op |-> "none", err |-> OK, res |-> NoRes]
  /\ pending = {}

Commit(d) ==
  /\ memories' = d.memories
  /\ keywords' = d.keywords
  /\ fts_index' = d.fts_index
  /\ fts_docsize' = d.fts_docsize
  /\ fts_nrow' = d.fts_nrow
  /\ seq' = d.seq

Respond(op, err, res) == last' = [op |-> op, err |-> err, res |-> res]

\* ------------------------------------------------------------ schemas ----
\* An InsertMemorySchema without the .max(10) of its keywords.
InsertMemorySchemaNoMax(content, summary, raw) ==
  /\ Len(content) >= MinLen
  /\ Len(summary) >= MinLen /\ Len(summary) <= SummaryMaxLen

\* InsertMemorySchema.parse succeeds.
InsertMemorySchema(content, summary, raw) ==
  /\ Len(content) >= MinLen
  /\ Len(summary) >= MinLen /\ Len(summary) <= SummaryMaxLen
  /\ Len(raw) <= KeywordsMax

\* UpdateMemorySchema.parse succeeds: the fields that are there are in range
\* and d.content || d.summary || d.keywords is truthy (an array always is).
UpdateMemorySchema(id, content, summary, raw) ==
  /\ id > 0
  /\ content # None => Len(content) >= MinLen
  /\ summary # None => Len(summary) >= MinLen /\ Len(summary) <= SummaryMaxLen
  /\ raw # NoList => Len(raw) <= KeywordsMax
  /\ Truthy(content) \/ Truthy(summary) \/ raw # NoList

\* SearchMemoriesSchema.parse succeeds.
SearchMemoriesSchema(query, raw, limit, summaryWeight, keywordWeight, lambda) ==
  /\ Len(query) >= MinLen
  /\ Len(raw) <= KeywordsMax
  /\ limit > 0 /\ limit <= LimitMax
  /\ summaryWeight > 0
  /\ keywordWeight > 0
  /\ lambda >= 0

\* GetMemorySchema.parse, DeleteMemorySchema.parse succeed.
GetMemorySchema(id) == id > 0
DeleteMemorySchema(id) == id > 0

\* ListMemoriesSchema.parse succeeds.
ListMemoriesSchema(limit, offset) ==
  /\ limit > 0 /\ limit <= LimitMax
  /\ offset >= 0

\* What the tool dispatcher makes of the ZodError that parse throws.
ZodError == "Error executing tool: ZodError"

\* A request that its schema's parse, the handler's first statement, refuses.
Rejected(op) ==
  /\ Respond(op, ZodError, NoRes)
  /\ UNCHANGED <<dbvars, files, dirs, now, pending>>

\* An insertMemory that stores the record first and writes the file after.
InsertMemoryRecordFirst(content, summary, raw, writeOk) ==
  LET normalized == NormalizeKeywords(raw)
      path == SavePath(files, Slug(summary) \o S_md, now)
      d == RepoInsert(Db, path, summary, normalized, now)
  IN  /\ dirs' = dirs \cup {DayOf(now)}
      /\ Commit(d)
      /\ IF ~writeOk
         THEN /\ Respond("insert", "Failed to insert memory: EIO", NoRes)
              /\ UNCHANGED files
         ELSE /\ files' = WriteFile(files, path, content)
              /\ Respond("insert", IF d.err = OK THEN OK ELSE "Failed to insert memory: " \o d.err,
                         IF d.err = OK THEN [id |-> d.seq, file_path |-> path] ELSE NoRes)
      /\ UNCHANGED <<now, pending>>

\* A deleteMemory that also removes the record's content file.
DeleteMemoryUnlink(id) ==
  LET d == RepoDelete(Db, id)
  IN  /\ Commit(d)
      /\ Respond("delete", IF id \in DOMAIN memories THEN OK ELSE "not found", NoRes)
      /\ files' = IF id \in DOMAIN memories
                  THEN [q \in DOMAIN files \ {memories[id].file_path} |-> files[q]]
                  ELSE files
      /\ UNCHANGED <<dirs, now, pending>>

\* -------------------------------------------------------------- tools ----
\* A statement of the transaction that the database refuses with dbErr (a
\* full disk, a locked file); OK when it refuses nothing.
Refused(d, dbErr) == IF dbErr = OK THEN d ELSE Fail(d, dbErr)

\* An insertMemory that takes its file back when the transaction fails.
InsertMemoryUnlinkOnFail(content, summary, raw, writeOk, dbErr) ==
  LET normalized == NormalizeKeywords(raw)
      path == SavePath(files, Slug(summary) \o S_md, now)
      d == Transaction(Db, Refused(InsertTx(Db, path, summary, normalized, now), dbErr))
  IN  /\ dirs' = dirs \cup {DayOf(now)}
      /\ files' = IF writeOk /\ d.err = OK THEN WriteFile(files, path, content) ELSE files
      /\ IF writeOk THEN Commit(d) ELSE UNCHANGED dbvars
      /\ Respond("insert", IF writeOk /\ d.err = OK THEN OK ELSE "Failed to insert memory",
                 IF writeOk /\ d.err = OK THEN [id |-> d.seq, file_path |-> path] ELSE NoRes)
      /\ UNCHANGED <<now, pending>>

\* AgentMemoryServer.insertMemory after its parse, under a file system that
\* lets saveDated write or not (writeOk) and a database that runs the
\* transaction or refuses it (dbErr).
InsertMemoryUnder(content, summary, raw, writeOk, dbErr) ==
  LET normalized == NormalizeKeywords(raw)
      path == SavePath(files, Slug(summary) \o S_md, now)
      d == Transaction(Db, Refused(InsertTx(Db, path, summary, normalized, now), dbErr))
  IN  /\ dirs' = dirs \cup {DayOf(now)}
      /\ IF ~writeOk
         THEN /\ Respond("insert", "Failed to insert memory: EIO", NoRes)
              /\ UNCHANGED <<dbvars, files>>
         ELSE /\ files' = WriteFile(files, path, content)
              /\ Commit(d)
              /\ Respond("insert", IF d.err = OK THEN OK ELSE "Failed to insert memory: " \o d.err,
                         IF d.err = OK THEN [id |-> d.seq, file_path |-> path] ELSE NoRes)
      /\ UNCHANGED <<now, pending>>

\* insert_memory: AgentMemoryServer.insertMemory.  writeOk is whether the
\* file system lets saveDated write.
InsertMemory(content, summary, raw, writeOk) ==
  IF ~InsertMemorySchema(content, summary, raw) THEN Rejected("insert")
  ELSE InsertMemoryUnder(content, summary, raw, writeOk, OK)

\* update_memory: AgentMemoryServer.updateMemory.
UpdateMemory(id, content, summary, raw, writeOk) ==
  IF ~UpdateMemorySchema(id, content, summary, raw) THEN Rejected("update")
  ELSE
  LET existing == RepoGet(Db, id)
      normalized == IF raw = NoList THEN NoList ELSE NormalizeKeywords(raw)
      d == RepoUpdate(Db, id, summary, normalized, now)
  IN  /\ content = None => writeOk
      /\ IF ~existing.found
         THEN /\ Respond("update", "not found", NoRes)
              /\ UNCHANGED <<dbvars, files>>
         ELSE IF content # None /\ ~writeOk
         THEN /\ Respond("update", "Failed to write file: EIO", NoRes)
              /\ UNCHANGED <<dbvars, files>>
         ELSE /\ files' = IF content # None
                          THEN WriteFile(files, existing.file_path, content)
                          ELSE files
              /\ Commit(d)
              /\ IF d.err # OK THEN Respond("update", d.err, NoRes)
                 ELSE IF id \notin DOMAIN d.memories
                      THEN Respond("update", "Update failed", NoRes)
                 ELSE Respond("update", OK,
                              [id |-> id, file_path |-> RepoGet(d, id).file_path])
      /\ UNCHANGED <<dirs, now, pending>>

\* update_memory up to its await: the parse, repo.get, the not-found answer.
\* Without content the handler has no await and runs to its end; with content
\* it stops at await import('fs') holding the path that repo.get gave it, and
\* the handlers of other requests run before it goes on.
UpdateMemoryBegin(proc, id, content, summary, raw) ==
  IF ~UpdateMemorySchema(id, content, summary, raw) THEN Rejected("update")
  ELSE IF ~Truthy(content) THEN UpdateMemory(id, content, summary, raw, TRUE)
  ELSE
  LET existing == RepoGet(Db, id)
  IN  IF ~existing.found
      THEN /\ Respond("update", "not found", NoRes)
           /\ UNCHANGED <<dbvars, files, dirs, now, pending>>
      ELSE /\ pending' = pending \cup {[op |-> "update", proc |-> proc, id |-> id,
                                         content |-> content, summary |-> summary,
                                         raw |-> raw, file_path |-> existing.file_path]}
           /\ UNCHANGED <<dbvars, files, dirs, now, last>>

\* An update_memory that answers with success whatever repo.update returns.
UpdateMemoryAfterAwaitOkIgnored(u, writeOk) ==
  LET normalized == IF u.raw = NoList THEN NoList ELSE NormalizeKeywords(u.raw)
      d == RepoUpdate(Db, u.id, u.summary, normalized, now)
  IN  /\ pending' = pending \ {u}
      /\ files' = IF writeOk THEN WriteFile(files, u.file_path, u.content) ELSE files
      /\ IF writeOk THEN Commit(d) ELSE UNCHANGED dbvars
      /\ Respond("update", IF writeOk THEN OK ELSE "Failed to write file: EIO",
                 IF writeOk THEN [id |-> u.id, file_path |-> u.file_path] ELSE NoRes)
      /\ UNCHANGED <<dirs, now>>

\* update_memory from its await on: writeFileSync to the path it holds, the
\* keywords normalized, repo.update, the answer.  An error that repo.update
\* throws leaves the handler and reaches the caller through the dispatcher.
UpdateMemoryAfterAwait(u, writeOk) ==
  LET normalized == IF u.raw = NoList THEN NoList ELSE NormalizeKeywords(u.raw)
      d == RepoUpdate(Db, u.id, u.summary, normalized, now)
  IN  /\ pending' = pending \ {u}
      /\ IF ~writeOk
         THEN /\ Respond("update", "Failed to write file: EIO", NoRes)
              /\ UNCHANGED <<dbvars, files>>
         ELSE /\ files' = WriteFile(files, u.file_path, u.content)
              /\ Commit(d)
              /\ IF d.err # OK THEN Respond("update", d.err, NoRes)
                 ELSE IF u.id \notin DOMAIN d.memories
                      THEN Respond("update", "Update failed", NoRes)
                 ELSE Respond("update", OK,
                              [id |-> u.id, file_path |-> RepoGet(d, u.id).file_path])
      /\ UNCHANGED <<dirs, now>>

\* FileStore.saveDated up to its write, in one of several processes that
\* share the content directory: ensureDir, then the existsSync probes that
\* settle the candidate.
SaveDatedProbe(proc, basenameHint, content) ==
  /\ dirs' = dirs \cup {DayOf(now)}
  /\ pending' = pending \cup {[op |-> "saveDated", proc |-> proc, id |-> 0,
                                content |-> content, summary |-> None, raw |-> NoList,
                                file_path |-> SavePath(files, basenameHint, now)]}
  /\ UNCHANGED <<dbvars, files, now, last>>

\* A write that fails when the candidate has come to exist (flag 'wx').
SaveDatedWriteExclusive(u) ==
  /\ pending' = pending \ {u}
  /\ files' = WriteFileExclusive(files, u.file_path, u.content)
  /\ Respond("fs.saveDated", IF u.file_path \in DOMAIN files THEN "EEXIST" ELSE OK,
             [id |-> 0, file_path |-> u.file_path])
  /\ UNCHANGED <<dbvars, dirs, now>>

\* FileStore.saveDated from its write on: writeFileSync(candidate, content)
\* and the answer { path: candidate }.
SaveDatedWrite(u) ==
  /\ pending' = pending \ {u}
  /\ files' = WriteFile(files, u.file_path, u.content)
  /\ Respond("fs.saveDated", OK, [id |-> 0, file_path |-> u.file_path])
  /\ UNCHANGED <<dbvars, dirs, now>>

\* delete_memory: AgentMemoryServer.deleteMemory.
DeleteMemory(id) ==
  IF ~DeleteMemorySchema(id) THEN Rejected("delete")
  ELSE
  LET d == RepoDelete(Db, id)
  IN  /\ IF d.err # OK
         THEN /\ Respond("delete", d.err, NoRes)
              /\ UNCHANGED dbvars
         ELSE /\ Commit(d)
              /\ Respond("delete", IF id \in DOMAIN memories THEN OK ELSE "not found", NoRes)
      /\ UNCHANGED <<files, dirs, now, pending>>

\* get_memory: AgentMemoryServer.getMemory.
GetMemory(id) ==
  IF ~GetMemorySchema(id) THEN Rejected("get")
  ELSE
  LET memory == RepoGet(Db, id)
  IN  /\ IF ~memory.found
         THEN Respond("get", "not found", NoRes)
         ELSE Respond("get", OK,
                      [id |-> memory.id, file_path |-> memory.file_path,
                       file_contents |-> ReadLimited(files, memory.file_path,
                                                     ReadLimitBytes, TRUE).file_contents,
                       summary |-> memory.summary])
      /\ UNCHANGED <<dbvars, files, dirs, now, pending>>

ListTypeError == "TypeError: m.keywords.split is not a function"

\* list_memories: AgentMemoryServer.listMemories.  Each row of
\* MemoryRepository.list has an array for keywords; the handler's
\* m.keywords ? m.keywords.split(', ') : [] finds every array truthy and calls
\* split, which no array has: the map throws at the first row of the page.
ListMemories(limit, offset) ==
  IF ~ListMemoriesSchema(limit, offset) THEN Rejected("list")
  ELSE
  LET rows == RepoList(Db, limit, offset)
      total == RepoCount(Db)
  IN  /\ IF rows # <<>>
         THEN Respond("list", ListTypeError, NoRes)
         ELSE Respond("list", OK,
                      [memories |-> rows,
                       pagination |-> [total |-> total, limit |-> limit, offset |-> offset,
                                       has_more |-> offset + limit < total]])
      /\ UNCHANGED <<dbvars, files, dirs, now, pending>>

OutsideError == "File path outside content directory"

\* read_file: AgentMemoryServer.readFile.  resolvedTarget in the answer is
\* the path the handler went on with; read tells whether readLimited was
\* called with it.
ReadFile(filePath, readOk) ==
  LET resolvedBase == Resolve(baseContentDir)
      resolvedTarget == Resolve(filePath)
      isWithinBase == IsWithinBase(resolvedTarget, resolvedBase)
      fileInfo == ReadLimited(Disk(files), resolvedTarget, ReadLimitBytes, readOk)
  IN  /\ IF ~isWithinBase
         THEN Respond("read_file", OutsideError,
                      [file_path |-> filePath, resolvedTarget |-> resolvedTarget,
                       read |-> FALSE])
         ELSE Respond("read_file", OK,
                      [file_path |-> filePath, resolvedTarget |-> resolvedTarget,
                       read |-> TRUE,
                       file_contents |-> fileInfo.file_contents,
                       file_exists |-> fileInfo.file_exists])
      /\ UNCHANGED <<dbvars, files, dirs, now, pending>>

\* ------------------------------------------------------------- search ----
\* .replace(/"/g, '""')
RECURSIVE DoubleQuotes(_)
DoubleQuotes(s) ==
  IF s = <<>> THEN <<>>
  ELSE (IF Head(s) = "\"" THEN <<"\"", "\"">> ELSE <<Head(s)>>) \o DoubleQuotes(Tail(s))

BracketSet == {"(", ")", "{", "}", "[", "]"}

\* A replacement that knows the round brackets only.
BlankParens(s) == [i \in DOMAIN s |-> IF s[i] \in {"(", ")"} THEN " " ELSE s[i]]

\* .replace(/[(){}[\]]/g, ' ')
BlankBrackets(s) == [i \in DOMAIN s |-> IF s[i] \in BracketSet THEN " " ELSE s[i]]

\* .replace(/\s+/g, ' ')
RECURSIVE CollapseSpaces(_)
CollapseSpaces(s) ==
  IF s = <<>> THEN <<>>
  ELSE IF IsSpace(Head(s))
       THEN <<" ">> \o CollapseSpaces(TrimStart(s))
       ELSE <<Head(s)>> \o CollapseSpaces(Tail(s))

\* SearchService.sanitize
Sanitize(query) == Trim(CollapseSpaces(BlankBrackets(DoubleQuotes(query))))

\* memories_fts MATCH ?, for a query of bare words: the rows that have every
\* word of the query in some column of the index.
Matching(d, sanitized) ==
  {id \in {p[1] : p \in d.fts_index} :
     \A t \in Range(Tokenize(sanitized)) :
       <<id, "summary", t>> \in d.fts_index \/ <<id, "keywords", t>> \in d.fts_index}

\* bm25(memories_fts, summaryWeight, keywordWeight), lower is better: each
\* column in which a word of the query occurs counts its weight.  The inverse
\* document frequency and the length normalisation of FTS5 are left out.
Bm25(d, id, sanitized, summaryWeight, keywordWeight) ==
  LET ts == SetToSeq(Range(Tokenize(sanitized)))
      hit(i) == (IF <<id, "summary", ts[i]>> \in d.fts_index THEN summaryWeight ELSE 0)
                  + (IF <<id, "keywords", ts[i]>> \in d.fts_index THEN keywordWeight ELSE 0)
      sum[i \in 0..Len(ts)] == IF i = 0 THEN 0 ELSE sum[i - 1] + hit(i)
  IN  0 - sum[Len(ts)]

\* The count with the boost keywords bound as the request has them.
MatchedKeywordsExact(d, id, boost) ==
  IF boost = <<>> THEN 0
  ELSE Cardinality(KeywordsOf(d.keywords, id) \cap Range(boost))

\* SELECT COUNT(DISTINCT k.keyword) FROM keywords k
\*   WHERE k.memory_id = m.id AND k.keyword IN (bound keywords, lower-cased)
MatchedKeywords(d, id, boost) ==
  IF boost = <<>> THEN 0
  ELSE Cardinality(KeywordsOf(d.keywords, id) \cap {ToLowerCase(b) : b \in Range(boost)})

\* The orders ORDER BY column may produce: every arrangement of the rows S
\* that is non-decreasing in the column; rows that agree on it come in any order.
RECURSIVE SortedSeqs(_, _)
SortedSeqs(S, column) ==
  IF S = {} THEN {<<>>}
  ELSE LET least == {x \in S : \A y \in S : x[column] <= y[column]}
       IN  UNION {{<<x>> \o q : q \in SortedSeqs(S \ {x}, column)} : x \in least}

\* A row whose boost term is added to the score instead of subtracted.
SearchRowAddBoost(d, id, sanitized, boost, summaryWeight, keywordWeight, lambda) ==
  LET bm25 == Bm25(d, id, sanitized, summaryWeight, keywordWeight)
      matched == MatchedKeywords(d, id, boost)
  IN  [id |-> id, file_path |-> d.memories[id].file_path,
       summary |-> d.memories[id].summary,
       bm25_score |-> bm25, matched_keywords |-> matched,
       final_score |-> bm25 + lambda * matched]

\* The row of the statement for a matching record.
SearchRow(d, id, sanitized, boost, summaryWeight, keywordWeight, lambda) ==
  LET bm25 == Bm25(d, id, sanitized, summaryWeight, keywordWeight)
      matched == MatchedKeywords(d, id, boost)
  IN  [id |-> id, file_path |-> d.memories[id].file_path,
       summary |-> d.memories[id].summary,
       bm25_score |-> bm25, matched_keywords |-> matched,
       final_score |-> bm25 - lambda * matched]

\* A statement without the LIMIT of its inner query.
SearchRunNoLimit(d, query, boost, limit, summaryWeight, keywordWeight, lambda) ==
  LET sanitized == Sanitize(query)
      cands == Matching(d, sanitized) \cap DOMAIN d.memories
      rows == {SearchRow(d, id, sanitized, boost, summaryWeight, keywordWeight, lambda) :
               id \in cands}
  IN  SortedSeqs(rows, "final_score")

\* A statement whose inner query is ordered by the boosted score.
SearchRunRankByFinal(d, query, boost, limit, summaryWeight, keywordWeight, lambda) ==
  LET sanitized == Sanitize(query)
      cands == Matching(d, sanitized) \cap DOMAIN d.memories
      rows == {SearchRow(d, id, sanitized, boost, summaryWeight, keywordWeight, lambda) :
               id \in cands}
  IN  {SubSeq(q, 1, Min(2 * limit, Len(q))) : q \in SortedSeqs(rows, "final_score")}

\* SearchService.run: the row lists the statement may return.  The inner
\* query keeps the first 2 * limit rows in bm25_score order, the outer one
\* orders them by final_score.
SearchRun(d, query, boost, limit, summaryWeight, keywordWeight, lambda) ==
  LET sanitized == Sanitize(query)
      cands == Matching(d, sanitized) \cap DOMAIN d.memories
      rows == {SearchRow(d, id, sanitized, boost, summaryWeight, keywordWeight, lambda) :
               id \in cands}
      ranked == {Range(SubSeq(q, 1, Min(2 * limit, Len(q)))) :
                 q \in SortedSeqs(rows, "bm25_score")}
  IN  UNION {SortedSeqs(r, "final_score") : r \in ranked}

\* A searchMemories that hands back every row, without results.slice(0, limit).
SearchResponseNoSlice(fs, results, limit) ==
  [rows |-> results,
   results |-> [i \in 1..Len(results) |->
                  [file_path |-> results[i].file_path,
                   file_contents |-> ReadLimited(fs, results[i].file_path,
                                                 ReadLimitBytes, TRUE).file_contents,
                   summary |-> results[i].summary]],
   total_found |-> Len(results)]

\* searchMemories: what it answers for the rows of SearchService.run; rows
\* keeps those rows themselves.
SearchResponse(fs, results, limit) ==
  [rows |-> results,
   results |-> [i \in 1..Min(limit, Len(results)) |->
                  [file_path |-> results[i].file_path,
                   file_contents |-> ReadLimited(fs, results[i].file_path,
                                                 ReadLimitBytes, TRUE).file_contents,
                   summary |-> results[i].summary]],
   total_found |-> Len(results)]

\* search_memories: AgentMemoryServer.searchMemories.
SearchMemories(query, boost, limit, summaryWeight, keywordWeight, lambda) ==
  IF ~SearchMemoriesSchema(query, boost, limit, summaryWeight, keywordWeight, lambda)
  THEN Rejected("search")
  ELSE
  /\ \E results \in SearchRun(Db, query, boost, limit, summaryWeight, keywordWeight, lambda) :
       Respond("search", OK, SearchResponse(files, results, limit))
  /\ UNCHANGED <<dbvars, files, dirs, now, pending>>

\* Time passes.
Tick ==
  /\ now < MaxTime
  /\ now' = now + 1
  /\ UNCHANGED <<dbvars, files, dirs, last, pending>>

\* ------------------------------------------------- repository callers ----
\* A caller of the repository itself: any path, any keyword list, any id.
RepoPaths == {MkPath(0, <<"p", ".", "m", "d">>), MkPath(0, <<"q", ".", "m", "d">>)}
RepoKeywordLists == {<<>>,
                     << <<"x">> >>,
                     << <<"x">>, <<"y">> >>,
                     << <<"y">>, <<"x">>, <<"x">> >>}

\* repo.insert(file_path, summary, keywords)
RepoInsertCall(file_path, summary, kws) ==
  LET d == RepoInsert(Db, file_path, summary, kws, now)
  IN  /\ Commit(d)
      /\ Respond("repo.insert", d.err,
                 IF d.err = OK THEN [id |-> d.seq, file_path |-> file_path] ELSE NoRes)
      /\ UNCHANGED <<files, dirs, now, pending>>

\* repo.update(id, summary, keywords)
RepoUpdateCall(id, summary, kws) ==
  LET d == RepoUpdate(Db, id, summary, kws, now)
  IN  /\ Commit(d)
      /\ Respond("repo.update",
                 IF d.err # OK THEN d.err
                 ELSE IF id \in DOMAIN d.memories THEN OK ELSE "false",
                 NoRes)
      /\ UNCHANGED <<files, dirs, now, pending>>

\* repo.delete(id)
RepoDeleteCall(id) ==
  LET d == RepoDelete(Db, id)
  IN  /\ Commit(d)
      /\ Respond("repo.delete",
                 IF d.err # OK THEN d.err
                 ELSE IF id \in DOMAIN memories THEN OK ELSE "false",
                 NoRes)
      /\ UNCHANGED <<files, dirs, now, pending>>

\* repo.list(limit, offset)
RepoListCall(limit, offset) ==
  /\ Respond("repo.list", OK,
             [rows |-> RepoList(Db, limit, offset), limit |-> limit, offset |-> offset])
  /\ UNCHANGED <<dbvars, files, dirs, now, pending>>

\* fileStore.readLimited(path, limitBytes)
ReadLimitedCall(path, limitBytes, readOk) ==
  /\ Respond("fs.readLimited", OK,
             [path |-> path, limitBytes |-> limitBytes, readOk |-> readOk,
              info |-> ReadLimited(files, path, limitBytes, readOk)])
  /\ UNCHANGED <<dbvars, files, dirs, now, pending>>

\* search.sanitize(query)
SanitizeCall(query) ==
  /\ Respond("sanitize", OK, [query |-> query, sanitized |-> Sanitize(query)])
  /\ UNCHANGED <<dbvars, files, dirs, now, pending>>

\* ------------------------------------------------------ specifications ----
\* The requests of a client that sends one request at a time: contents from
\* C, summaries from S, keyword lists from K, write outcomes from W, ids from
\* I; at most cap ids are ever assigned.
Inserts(C, S, K, W, cap) ==
  \E c \in C, s \in S, k \in K, w \in W : seq < cap /\ InsertMemory(c, s, k, w)

Updates(I, C, S, K, W) ==
  \E id \in I, c \in C \cup {None}, s \in S \cup {None}, k \in K \cup {NoList}, w \in W :
    (c # None \/ s # None \/ k # NoList) /\ UpdateMemory(id, c, s, k, w)

\* The inserts whose transaction the database refuses with an error of E; no
\* more than cap files are ever written.
RefusedInserts(C, S, K, E, cap) ==
  \E c \in C, s \in S, k \in K, e \in E :
    /\ Cardinality(DOMAIN files) < cap
    /\ InsertMemorySchema(c, s, k)
    /\ InsertMemoryUnder(c, s, k, TRUE, e)

Deletes(I) == \E id \in I : DeleteMemory(id)

Gets(I) == \E id \in I : GetMemory(id)

\* The entity store and its index: one content, never rewritten, one summary,
\* no write failure, no clock.
Next ==
  \/ Inserts({<<"c", "1">>}, {<<"A">>}, RawKeywordLists, {TRUE}, MaxId)
  \/ Updates(Ids, {}, {<<"A">>}, RawKeywordLists, {TRUE})
  \/ Deletes(Ids)
  \/ Gets(Ids)

Spec == Init /\ [][Next]_vars

\* The blob store and its write failures: no keywords, one summary.
NextB ==
  \/ Inserts(Contents, {<<"A">>}, {<<>>}, BOOLEAN, MaxId)
  \/ Updates(Ids, Contents, {<<"A">>}, {<<>>}, BOOLEAN)
  \/ Deletes(Ids)
  \/ Gets(Ids)

SpecB == Init /\ [][NextB]_vars

\* The inserts that leave a file without a record: the database refuses some
\* transactions.
DbErrors == {"SQLITE_FULL", "SQLITE_BUSY"}

NextO ==
  \/ \E c \in Contents, s \in {<<"A">>}, k \in {<<>>, << <<"x">> >>} :
       Cardinality(DOMAIN files) < MaxId /\ InsertMemory(c, s, k, TRUE)
  \/ RefusedInserts(Contents, {<<"A">>}, {<<>>, << <<"x">> >>}, DbErrors, MaxId)
  \/ Deletes(Ids)
  \/ Gets(Ids)

SpecO == Init /\ [][NextO]_vars

\* The dated paths: inserts and deletes over the days.
NextS ==
  \/ Inserts(Contents, Summaries, {<<>>}, {TRUE}, MaxSaved)
  \/ Deletes(SavedIds)
  \/ Tick

SpecS == Init /\ [][NextS]_vars

\* The searches over records that differ in their keywords.
Searches(L) ==
  \E q \in Queries, b \in BoostLists, l \in L, lambda \in Lambdas :
    SearchMemories(q, b, l, SummaryWeightDefault, KeywordWeightDefault, lambda)

NextQ ==
  \/ Inserts({<<"c", "1">>}, {<<"A">>}, SearchKeywordLists, {TRUE}, MaxSaved)
  \/ Deletes(SavedIds)
  \/ Searches({1})

SpecQ == Init /\ [][NextQ]_vars

\* The listings over records made and updated at different times.
Lists == \E l \in Limits, o \in Offsets : ListMemories(l, o)

RepoLists == \E l \in Limits, o \in Offsets : RepoListCall(l, o)

NextL ==
  \/ Inserts({<<"c", "1">>}, {<<"A">>}, {<<>>}, {TRUE}, MaxSaved)
  \/ Updates(SavedIds, {}, {<<"A">>}, {}, {TRUE})
  \/ Deletes(SavedIds)
  \/ Lists
  \/ RepoLists
  \/ Tick

SpecL == Init /\ [][NextL]_vars

\* The file store under reads with a limit: files of one to three bytes,
\* rewritten by updates, read with limits below and above their sizes.
ReadsLimited ==
  \E path \in DOMAIN files \cup {MissingPath}, limitBytes \in ReadLimits, readOk \in BOOLEAN :
    ReadLimitedCall(path, limitBytes, readOk)

NextF ==
  \/ Inserts(FileContents, {<<"A">>}, {<<>>}, {TRUE}, MaxId)
  \/ Updates(Ids, FileContents, {}, {}, {TRUE})
  \/ ReadsLimited

SpecF == Init /\ [][NextF]_vars

\* The raw reads of paths inside and outside the content directory.
ReadFiles == \E filePath \in ReadFilePaths, readOk \in BOOLEAN : ReadFile(filePath, readOk)

NextP ==
  \/ Inserts(Contents, {<<"A">>}, {<<>>}, {TRUE}, MaxId)
  \/ Deletes(Ids)
  \/ ReadFiles
  \/ Tick

SpecP == Init /\ [][NextP]_vars

\* The requests at and beyond the edges of what the schemas accept.
NextV ==
  \/ \E r \in InsertRequests :
       seq < MaxId /\ InsertMemory(r.content, r.summary, r.keywords, TRUE)
  \/ \E id \in IdsV, r \in UpdateFields :
       UpdateMemory(id, r.content, r.summary, r.keywords, TRUE)
  \/ \E id \in IdsV : DeleteMemory(id)
  \/ \E id \in IdsV : GetMemory(id)
  \/ \E r \in ListRequests : ListMemories(r.limit, r.offset)
  \/ \E r \in SearchRequests :
       SearchMemories(r.query, r.keywords, r.limit, r.summaryWeight, r.keywordWeight,
                      r.lambda)

SpecV == Init /\ [][NextV]_vars

\* The updates of summaries and keywords as time passes.
NextT ==
  \/ Inserts({<<"c", "1">>}, {<<"A">>}, {<<>>}, {TRUE}, MaxId)
  \/ Updates(Ids, {}, {<<"a", " ", "1">>}, {<< <<"x">> >>}, {TRUE})
  \/ Tick

SpecT == Init /\ [][NextT]_vars

\* The updates of one record beside another: content, summary and keywords
\* given or left out.
NextU ==
  \/ Inserts({<<"c", "1">>}, {<<"A">>}, {<< <<"x">> >>}, {TRUE}, MaxId)
  \/ Updates(Ids, {<<"c", "2">>}, {<<"a", " ", "1">>}, {<< <<"y">> >>}, {TRUE})

SpecU == Init /\ [][NextU]_vars

\* The requests of a client that sends a request before the answer to the one
\* before has come: the SDK starts each handler as the request arrives, so
\* the handlers of other requests run while an update_memory is at its await.
Procs == 1..MaxPending

Free(proc) == \A u \in pending : u.proc # proc

\* The update_memory requests that carry content, the ones that stop at the
\* await; each takes the lowest call slot that is free.
UpdateBegins(I, C, S, K) ==
  \E proc \in Procs, id \in I, c \in C, s \in S \cup {None}, k \in K \cup {NoList} :
    /\ Free(proc) /\ \A q \in Procs : q < proc => ~Free(q)
    /\ UpdateMemoryBegin(proc, id, c, s, k)

UpdateEnds(W) ==
  \E u \in pending, w \in W : u.op = "update" /\ UpdateMemoryAfterAwait(u, w)

NextC ==
  \/ Inserts({<<"c", "1">>}, {<<"A">>}, {<<>>}, {TRUE}, MaxId)
  \/ UpdateBegins({1}, {<<"c", "2">>}, {}, {<< <<"y">> >>})
  \/ UpdateEnds({TRUE})
  \/ Deletes(Ids)

SpecC == Init /\ [][NextC]_vars

\* The updates addressed to ids without a record: repo.update called with
\* such an id, update_memory for such an id, and update_memory whose record
\* a delete_memory removes while it is at its await.
MissingUpdateSummaries == {None, <<"B">>}
MissingUpdateKeywords == {NoList, <<>>, << <<"y">> >>}

RepoUpdatesOfMissing ==
  \E id \in Ids \ DOMAIN memories, s \in MissingUpdateSummaries, k \in MissingUpdateKeywords :
    RepoUpdateCall(id, s, k)

NextN ==
  \/ Inserts({<<"c", "1">>}, {<<"A">>}, {<<>>}, {TRUE}, MaxId)
  \/ UpdateBegins({1}, {<<"c", "2">>}, {}, {<< <<"y">> >>})
  \/ UpdateEnds({TRUE})
  \/ Deletes(Ids)
  \/ RepoUpdatesOfMissing

SpecN == Init /\ [][NextN]_vars

\* The writers of one content directory, each a process of its own inside
\* saveDated: a probe in one may fall between the probe and the write of another.
SaveDatedProbes(H, C, cap) ==
  \E proc \in Procs, h \in H, c \in C :
    /\ Cardinality(DOMAIN files) + Cardinality(pending) < cap
    /\ Free(proc) /\ \A q \in Procs : q < proc => ~Free(q)
    /\ SaveDatedProbe(proc, h, c)

SaveDatedWrites == \E u \in pending : u.op = "saveDated" /\ SaveDatedWrite(u)

NextW ==
  \/ SaveDatedProbes({<<"a">> \o S_md}, Contents, MaxSaved)
  \/ SaveDatedWrites
  \/ Tick

SpecW == Init /\ [][NextW]_vars

\* The sanitizer under every short query.
NextZ == \E query \in QueryStrings : SanitizeCall(query)

SpecZ == Init /\ [][NextZ]_vars

\* The repository under its direct callers.
NextR ==
  \/ \E p \in RepoPaths, k \in RepoKeywordLists :
       seq < MaxId /\ RepoInsertCall(p, <<"A">>, k)
  \/ \E id \in Ids, s \in {<<"A">>, None}, k \in RepoKeywordLists \cup {NoList} :
       RepoUpdateCall(id, s, k)
  \/ \E id \in Ids : RepoDeleteCall(id)

SpecR == Init /\ [][NextR]_vars

\* ---------------------------------------------------------- properties ----
Live == DOMAIN memories
Deleted == (1..seq) \ DOMAIN memories
IndexOf(id) == {p \in fts_index : p[1] = id}

\* C1: every live record has exactly one index entry, and what the index
\* holds for it is its current summary and its current keywords joined by
\* spaces: the indexed tokens of each column are the tokens of that text.
C1_IndexMatchesRecord ==
  \A id \in Live :
    /\ id \in DOMAIN fts_docsize
    /\ IndexOf(id) = Postings(id, "summary", memories[id].summary)
                       \cup Postings(id, "keywords", KeywordsConcat(Db, id))

\* C2: right after a successful insert, get(id) returns the submitted summary,
\* exactly the normalized, deduplicated keywords, and the returned path.
C2_GetReturnsWhatWasInserted ==
  [][\A c \in Contents, s \in Summaries, k \in RawKeywordLists :
       (last'.op = "insert" /\ last'.err = OK /\ InsertMemory(c, s, k, TRUE))
         => LET got == RepoGet(Db', last'.res.id)
            IN  /\ got.found
                /\ got.summary = s
                /\ got.file_path = last'.res.file_path
                /\ Range(got.keywords) = Range(NormalizeKeywords(k))
                /\ Len(got.keywords) = Len(NormalizeKeywords(k))]_vars

\* C3: a successful delete removes the record and all its keyword rows, and
\* from then on the id stays absent: no keyword rows, get reports not-found.
C3_DeleteRemovesRecordAndKeywords ==
  [][\A id \in Ids :
       /\ (last'.op = "delete" /\ last'.err = OK /\ DeleteMemory(id))
            => (id \notin DOMAIN memories' /\ KeywordsOf(keywords', id) = {})
       /\ id \in Deleted
            => (KeywordsOf(keywords', id) = {} /\ RepoGet(Db', id) = NotFound)]_vars

\* A record that had keywords (their tokens were indexed) has been deleted.
C3_Witness ==
  /\ last.op = "delete" /\ last.err = OK
  /\ \E id \in Deleted : \E p \in IndexOf(id) : p[2] = "keywords"

\* C4: after a delete the index holds nothing for the deleted id.
C4_NoIndexEntryForDeleted == \A id \in Deleted : IndexOf(id) = {}

\* C5: a delete leaves every content file as it was, the deleted record's
\* included.
C5_DeleteKeepsFiles ==
  [][\A id \in Ids : (last'.op = "delete" /\ DeleteMemory(id)) => files' = files]_vars

\* A record has been deleted and its content file is still there.
C5_Witness ==
  /\ last.op = "delete" /\ last.err = OK
  /\ Deleted # {}
  /\ \E q \in DOMAIN files : \A id \in Live : memories[id].file_path # q

\* C6: an update given the keyword list [] leaves the record without
\* keywords; an update given no keyword list leaves its keywords as they were.
C6_UpdateKeywordsPresence ==
  [][(last'.op = "update" /\ last'.err = OK) =>
       \A id \in {last'.res.id} :
         /\ \/ KeywordsOf(keywords', id) = {}
            \/ \A c \in Contents \cup {None}, s \in Summaries \cup {None} :
                 ~UpdateMemory(id, c, s, <<>>, TRUE)
         /\ \/ KeywordsOf(keywords', id) = KeywordsOf(keywords, id)
            \/ \A c \in Contents \cup {None}, s \in Summaries \cup {None} :
                 ~UpdateMemory(id, c, s, NoList, TRUE)]_vars

\* An update has left a record that had keywords without any.
C6_Witness ==
  /\ last.op = "update" /\ last.err = OK
  /\ KeywordsOf(keywords, last.res.id) = {}
  /\ \E p \in IndexOf(last.res.id) : p[2] = "keywords"

\* The live records inserted on the day of now under the slug of summary.
SameDaySameSlug(summary) ==
  {i \in Live : /\ Slug(memories[i].summary) = Slug(summary)
                /\ DayOf(memories[i].created_at) = DayOf(now)}

\* The i-th name saveDated tries for a slug: slug.md, slug-1.md, slug-2.md, ...
Candidate(slug, i) ==
  MkPath(DayOf(now), IF i = 0 THEN slug \o S_md
                     ELSE slug \o <<"-">> \o IntToStr(i) \o S_md)

\* C7, as stated: an insert never overwrites an existing file, and the second
\* insert of a slug on a day gets the suffix -1, the third -2, and so on.
C7_SecondIsSuffixedOne ==
  [][\A c \in Contents, s \in Summaries :
       (last'.op = "insert" /\ last'.err = OK /\ Deleted = {} /\ InsertMemory(c, s, <<>>, TRUE))
         => /\ last'.res.file_path \notin DOMAIN files
            /\ \A q \in DOMAIN files : files'[q] = files[q]
            /\ last'.res.file_path = Candidate(Slug(s), Cardinality(SameDaySameSlug(s)))]_vars

\* C7, amended: an insert never overwrites an existing file; it writes to the
\* first name among slug.md, slug-1.md, slug-2.md, ... that no file of the day
\* has, and every earlier file keeps its content.
C7_FirstFreeName ==
  [][\A c \in Contents, s \in Summaries :
       (last'.op = "insert" /\ last'.err = OK /\ InsertMemory(c, s, <<>>, TRUE))
         => /\ last'.res.file_path \notin DOMAIN files
            /\ \A q \in DOMAIN files : files'[q] = files[q]
            /\ files'[last'.res.file_path] = c
            /\ \E i \in 0..Cardinality(DOMAIN files) :
                 /\ last'.res.file_path = Candidate(Slug(s), i)
                 /\ \A j \in 0..(i - 1) : Candidate(Slug(s), j) \in DOMAIN files]_vars

\* Two live records of one day and one slug: the later one is suffixed -1.
C7_Witness ==
  \E i \in Live, j \in Live :
    /\ i < j
    /\ Slug(memories[i].summary) = Slug(memories[j].summary)
    /\ memories[i].file_path.dir = memories[j].file_path.dir
    /\ memories[i].file_path.name = Slug(memories[i].summary) \o S_md
    /\ memories[j].file_path.name = Slug(memories[i].summary) \o <<"-", "1">> \o S_md
    /\ memories[i].file_path \in DOMAIN files

\* C8: a repository insert or update is all or nothing: when a statement of it
\* fails the database is as it was before the call, and when none fails the
\* row and every keyword of the call are stored.
C8_AllOrNothing ==
  [][/\ (last'.op \in {"repo.insert", "repo.update"} /\ last'.err \notin {OK, "false"})
          => UNCHANGED dbvars
     /\ \A p \in RepoPaths, k \in RepoKeywordLists :
          (last'.op = "repo.insert" /\ last'.err = OK /\ RepoInsertCall(p, <<"A">>, k))
            => /\ seq' = seq + 1
               /\ seq' \in DOMAIN memories'
               /\ memories'[seq'].file_path = p
               /\ KeywordsOf(keywords', seq') = Range(k)
     /\ \A id \in Ids, k \in RepoKeywordLists :
          (last'.op = "repo.update" /\ last'.err = OK /\ RepoUpdateCall(id, <<"A">>, k))
            => KeywordsOf(keywords', id) = Range(k)]_vars

\* An insert has failed at its second keyword, after the row and the first
\* keyword went in, and an earlier record is there to compare with.
C8_Witness ==
  /\ last.op = "repo.insert"
  /\ last.err = "SQLITE_CONSTRAINT_PRIMARYKEY"
  /\ Live # {}

\* C9: no two live records share a content path; a repository insert with a
\* path a live record has fails with a storage error and adds no record.
C9_PathsUnique ==
  [][/\ \A i \in DOMAIN memories', j \in DOMAIN memories' :
          i # j => memories'[i].file_path # memories'[j].file_path
     /\ \A p \in RepoPaths, k \in RepoKeywordLists :
          (last'.op = "repo.insert" /\ RepoInsertCall(p, <<"A">>, k)
             /\ \E i \in Live : memories[i].file_path = p)
            => (last'.err = "SQLITE_CONSTRAINT_UNIQUE" /\ memories' = memories /\ seq' = seq)]_vars

\* An insert with a used path has been refused.
C9_Witness ==
  /\ last.op = "repo.insert"
  /\ last.err = "SQLITE_CONSTRAINT_UNIQUE"
  /\ Live # {}

\* C10: the content is written before the database is touched: a write that
\* fails leaves the database as it was, and the path of every live record
\* names a written file.
C10_WriteBeforeRecord ==
  [][/\ \A c \in Contents, s \in Summaries, k \in RawKeywordLists :
          (last'.op = "insert" /\ InsertMemory(c, s, k, FALSE)) => UNCHANGED dbvars
     /\ \A id \in Ids, c \in Contents, s \in Summaries \cup {None},
           k \in RawKeywordLists \cup {NoList} :
          (last'.op = "update" /\ id \in Live /\ UpdateMemory(id, c, s, k, FALSE))
            => UNCHANGED dbvars
     /\ \A id \in DOMAIN memories' : memories'[id].file_path \in DOMAIN files']_vars

\* A write has failed while records are stored.
C10_Witness ==
  /\ last.op \in {"insert", "update"}
  /\ last.err \in {"Failed to insert memory: EIO", "Failed to write file: EIO"}
  /\ Live # {}

\* Every row list a search with boost b, limit l and lambda may return in
\* this state satisfies P.
SearchOutcomes(b, l, lambda) ==
  UNION {SearchRun(Db, q, b, l, SummaryWeightDefault, KeywordWeightDefault, lambda) :
         q \in Queries}

\* C11, as stated: of two rows of one search with the same relevance score the
\* one with more matched boost keywords comes first, and without boost
\* keywords every final score is the relevance score.
C11_MoreMatchesFirst ==
  \A b \in BoostLists, l \in Limits, lambda \in Lambdas :
    \A rows \in SearchOutcomes(b, l, lambda) :
      /\ \A i, j \in DOMAIN rows :
           (rows[i].bm25_score = rows[j].bm25_score
              /\ rows[i].matched_keywords > rows[j].matched_keywords) => i < j
      /\ b = <<>> => \A i \in DOMAIN rows : rows[i].final_score = rows[i].bm25_score

\* C11, amended: the same for a lambda above zero; with lambda zero the final
\* scores of the two rows are equal and their order is not determined.
C11_MoreMatchesFirstWhenBoosted ==
  \A b \in BoostLists, l \in Limits, lambda \in Lambdas :
    \A rows \in SearchOutcomes(b, l, lambda) :
      /\ \A i, j \in DOMAIN rows :
           (rows[i].bm25_score = rows[j].bm25_score
              /\ rows[i].matched_keywords > rows[j].matched_keywords)
             => IF lambda > 0 THEN i < j
                ELSE rows[i].final_score = rows[j].final_score
      /\ b = <<>> => \A i \in DOMAIN rows : rows[i].final_score = rows[i].bm25_score

\* A search has answered two rows of equal relevance, the one with more
\* matched boost keywords first and with the lower final score.
C11_Witness ==
  /\ last.op = "search"
  /\ \E i, j \in DOMAIN last.res.rows :
       /\ i < j
       /\ last.res.rows[i].bm25_score = last.res.rows[j].bm25_score
       /\ last.res.rows[i].matched_keywords > last.res.rows[j].matched_keywords
       /\ last.res.rows[i].final_score < last.res.rows[j].final_score

\* C12: the rows of a search are in ascending order of final score, the final
\* score of a row is its relevance score minus lambda times its matched
\* keywords, and the caller gets the first limit rows of that order, or all of
\* them when they are fewer.
C12_AscendingFinalScorePrefix ==
  \A b \in BoostLists, l \in Limits, lambda \in Lambdas :
    \A rows \in SearchOutcomes(b, l, lambda) :
      LET answer == SearchResponse(files, rows, l)
      IN  /\ \A i, j \in DOMAIN rows : i < j => rows[i].final_score <= rows[j].final_score
          /\ \A i \in DOMAIN rows :
               rows[i].final_score
                 = rows[i].bm25_score - lambda * rows[i].matched_keywords
          /\ Len(answer.results) = Min(l, Len(rows))
          /\ \A i \in DOMAIN answer.results :
               /\ answer.results[i].file_path = rows[i].file_path
               /\ answer.results[i].summary = rows[i].summary

\* A search has answered fewer results than it had rows, and the boost has
\* put a row of worse relevance first.
C12_Witness ==
  /\ last.op = "search"
  /\ Len(last.res.results) < Len(last.res.rows)
  /\ \E i, j \in DOMAIN last.res.rows :
       /\ i < j
       /\ last.res.rows[i].bm25_score > last.res.rows[j].bm25_score
       /\ last.res.rows[i].final_score < last.res.rows[j].final_score

\* C13: a search with limit l answers at most l results, has at most 2 l rows
\* (the total it reports), and its rows are 2 l matching records of lowest
\* relevance score, or all matching records when they are fewer.
C13_LimitBoundsPool ==
  \A q \in Queries :
    LET cands == Matching(Db, Sanitize(q)) \cap Live
        scored == {<<c, Bm25(Db, c, Sanitize(q), SummaryWeightDefault, KeywordWeightDefault)>> :
                   c \in cands}
    IN  \A b \in BoostLists, l \in Limits, lambda \in Lambdas :
          \A rows \in SearchRun(Db, q, b, l, SummaryWeightDefault, KeywordWeightDefault, lambda) :
            LET answer == SearchResponse(files, rows, l)
                pool == {rows[i].id : i \in DOMAIN rows}
            IN  /\ Len(answer.results) <= l
                /\ answer.total_found <= 2 * l
                /\ answer.total_found = Len(rows)
                /\ pool \subseteq cands
                /\ Cardinality(pool) = Len(rows)
                /\ Len(rows) = Min(2 * l, Cardinality(cands))
                /\ \A c \in scored :
                     c[1] \notin pool => \A i \in DOMAIN rows : rows[i].bm25_score <= c[2]
                /\ \A i \in DOMAIN answer.results :
                     \E p \in pool : memories[p].file_path = answer.results[i].file_path

\* A search with limit 1 has left out a live record that matches, and a row
\* it kept has a strictly lower score than the record left out.
C13_Witness ==
  /\ last.op = "search"
  /\ last.res.total_found = 2
  /\ Len(last.res.results) = 1
  /\ \E q \in Queries :
       \E c \in (Matching(Db, Sanitize(q)) \cap Live) \ {last.res.rows[i].id : i \in {1, 2}} :
         \E i \in {1, 2} :
           last.res.rows[i].bm25_score
             < Bm25(Db, c, Sanitize(q), SummaryWeightDefault, KeywordWeightDefault)

\* C14: a list on a store with T live records succeeds and answers the page
\* of the most-recent-first order together with total = T and has_more,
\* which is true exactly when offset + limit < T.
C14_ListReturnsPage ==
  last.op = "list" =>
    /\ last.err = OK
    /\ last.res.pagination.total = Cardinality(Live)
    /\ last.res.pagination.has_more
         <=> (last.res.pagination.offset + last.res.pagination.limit < Cardinality(Live))
    /\ last.res.memories =
         RepoList(Db, last.res.pagination.limit, last.res.pagination.offset)

\* A list of a page that holds a record has answered.
C14_Witness == last.op = "list" /\ last.err = ListTypeError /\ Live # {}

\* The pages of the given size at offsets 0, limit, 2 * limit, ..., one after
\* the other.
RECURSIVE PagesFrom(_, _, _)
PagesFrom(d, limit, offset) ==
  IF offset >= RepoCount(d) THEN <<>>
  ELSE RepoList(d, limit, offset) \o PagesFrom(d, limit, offset + limit)

\* C15: every page of the repository's list is in non-increasing created_at
\* order, and on an unchanged store the pages at offsets 0, limit, 2 * limit,
\* ... are disjoint and hold every live record exactly once.
C15_PagesPartitionLive ==
  /\ \A l \in Limits, o \in Offsets :
       LET page == RepoList(Db, l, o)
       IN  \A i, j \in DOMAIN page : i < j => page[i].created_at >= page[j].created_at
  /\ \A l \in Limits :
       LET all == PagesFrom(Db, l, 0)
       IN  /\ Len(all) = Cardinality(Live)
           /\ {all[i].id : i \in DOMAIN all} = Live
           /\ \A i, j \in DOMAIN all : i < j => all[i].created_at >= all[j].created_at
  /\ last.op = "repo.list" => last.res.rows = RepoList(Db, last.res.limit, last.res.offset)

\* A later page was read from a store that has records of one created_at and
\* a younger record with a smaller id.
C15_Witness ==
  /\ last.op = "repo.list" /\ last.res.offset > 0 /\ last.res.rows # <<>>
  /\ \E i, j \in Live : i < j /\ memories[i].created_at > memories[j].created_at
  /\ \E i, j \in Live : i # j /\ memories[i].created_at = memories[j].created_at

\* C16: readLimited never hands back the content of a file larger than
\* limitBytes; when statSync and readFileSync succeed it reports such a file
\* as existing, with its size and the placeholder for its content, and a
\* file of at most limitBytes with its full content; a path without a file
\* is reported as not existing, with no error text.
C16_ReadIsCapped ==
  last.op = "fs.readLimited" =>
    LET r == last.res
        info == r.info
    IN  /\ r.path \notin DOMAIN files =>
             ~info.file_exists /\ info.file_contents = None
        /\ r.path \in DOMAIN files /\ Len(files[r.path]) > r.limitBytes =>
             /\ info.file_contents # files[r.path]
             /\ r.readOk => /\ info.file_exists
                            /\ info.file_size = Len(files[r.path])
                            /\ info.file_contents = TooLarge(info.file_size)
        /\ r.path \in DOMAIN files /\ Len(files[r.path]) <= r.limitBytes /\ r.readOk =>
             /\ info.file_exists
             /\ info.file_size = Len(files[r.path])
             /\ info.file_contents = files[r.path]

\* A file of three bytes was read with a limit of two.
C16_Witness ==
  /\ last.op = "fs.readLimited" /\ last.res.readOk
  /\ last.res.path \in DOMAIN files
  /\ Len(files[last.res.path]) = 3 /\ last.res.limitBytes = 2
  /\ last.res.info.file_exists

\* The path lies below the content directory on the file system.
InsideContentDir(resolved) == StartsWithDir(resolved, Resolve(baseContentDir))

\* C17: a raw read fails, and reads no file, for every path that resolves to
\* a place outside the content directory, and reads only paths that resolve
\* inside it.
C17_ReadsOnlyInsideRoot ==
  last.op = "read_file" =>
    /\ last.res.read => InsideContentDir(last.res.resolvedTarget)
    /\ ~InsideContentDir(last.res.resolvedTarget) => last.err # OK

\* A read of a stored file inside the content directory was answered.
C17_Witness ==
  /\ last.op = "read_file" /\ last.err = OK
  /\ InsideContentDir(last.res.resolvedTarget)
  /\ last.res.file_exists /\ last.res.file_contents \in Contents

\* The request's answer is an error and no store has changed.
RefusedUnchanged(op) ==
  /\ last'.op = op /\ last'.err # OK
  /\ UNCHANGED <<memories, keywords, fts_index, fts_docsize, fts_nrow, seq, files, dirs>>

SummaryOutOfRange(s) == Len(s) < 1 \/ Len(s) > 1000
LimitOutOfRange(l) == l < 1 \/ l > 100

\* C18: a request whose input breaks the declared shape or range (empty
\* content, summary outside 1-1000 characters, more than 10 keywords, an
\* update with none of content, summary and keywords, a non-positive id, a
\* limit outside 1-100, an empty query, a weight that is not positive, a
\* negative lambda or offset) is answered with an error, and the files, the
\* memory rows, the keyword rows and the index are as they were.
C18_InvalidRejected ==
  [][/\ \A r \in InsertRequests :
          (r.content = <<>> \/ SummaryOutOfRange(r.summary) \/ Len(r.keywords) > 10)
            => (RefusedUnchanged("insert")
                  \/ ~InsertMemory(r.content, r.summary, r.keywords, TRUE))
     /\ \A id \in IdsV, r \in UpdateFields :
          (\/ id < 1
           \/ r.content = <<>>
           \/ r.summary # None /\ SummaryOutOfRange(r.summary)
           \/ r.keywords # NoList /\ Len(r.keywords) > 10
           \/ r.content = None /\ r.summary = None /\ r.keywords = NoList)
            => (RefusedUnchanged("update")
                  \/ ~UpdateMemory(id, r.content, r.summary, r.keywords, TRUE))
     /\ \A id \in IdsV :
          id < 1 => /\ RefusedUnchanged("delete") \/ ~DeleteMemory(id)
                    /\ RefusedUnchanged("get") \/ ~GetMemory(id)
     /\ \A r \in ListRequests :
          (LimitOutOfRange(r.limit) \/ r.offset < 0)
            => (RefusedUnchanged("list") \/ ~ListMemories(r.limit, r.offset))
     /\ \A r \in SearchRequests :
          (\/ r.query = <<>> \/ Len(r.keywords) > 10 \/ LimitOutOfRange(r.limit)
           \/ r.summaryWeight <= 0 \/ r.keywordWeight <= 0 \/ r.lambda < 0)
            => (RefusedUnchanged("search")
                  \/ ~SearchMemories(r.query, r.keywords, r.limit, r.summaryWeight,
                                     r.keywordWeight, r.lambda))
    ]_vars

\* A request was refused for its shape while the stores held a record.
C18_Witness ==
  /\ last.err = ZodError /\ last.op \in {"insert", "update"}
  /\ Live # {} /\ keywords # {} /\ files # EmptyFn

UpperOf == [c \in {Lowers[i] : i \in DOMAIN Lowers} |->
              Uppers[CHOOSE i \in DOMAIN Lowers : Lowers[i] = c]]
ToUpperCase(s) == [i \in 1..Len(s) |-> IF s[i] \in DOMAIN UpperOf THEN UpperOf[s[i]] ELSE s[i]]

Normalized(k) == k # <<>> /\ Trim(k) = k /\ ToLowerCase(k) = k

\* Normalizing again changes nothing, and neither does writing the raw list
\* in another case, with blanks around its keywords, or twice over.
NormalizeLaws ==
  \A raw \in RawLists \cup {FooKeywords, TenKeywords, ElevenKeywords} :
    LET n == NormalizeKeywords(raw)
    IN  /\ NormalizeKeywords(n) = n
        /\ NormalizeKeywords([i \in DOMAIN raw |-> ToUpperCase(raw[i])]) = n
        /\ NormalizeKeywords([i \in DOMAIN raw |-> ToLowerCase(raw[i])]) = n
        /\ NormalizeKeywords([i \in DOMAIN raw |-> <<" ">> \o raw[i] \o <<" ">>]) = n
        /\ NormalizeKeywords(raw \o raw) = n
        /\ Len(n) <= 10
        /\ \A i \in DOMAIN n : Normalized(n[i])
        /\ \A i, j \in DOMAIN n : n[i] = n[j] => i = j

\* C19: keyword normalization is idempotent and does not depend on the case,
\* the surrounding blanks or the duplicates of the raw list, and every live
\* record has at most 10 keywords, each non-empty, trimmed and lower-cased.
C19_KeywordsNormalized ==
  /\ NormalizeLaws
  /\ NormalizeKeywords(FooKeywords) = << <<"f", "o", "o">>, <<"b", "a", "r">> >>
  /\ \A id \in Live :
       /\ Cardinality(KeywordsOf(keywords, id)) <= 10
       /\ \A k \in KeywordsOf(keywords, id) : Normalized(k)

\* An insert with ["Foo", " foo ", "BAR"] has stored {"foo", "bar"}, and a
\* record has ten keywords.
C19_Witness ==
  /\ \E id \in Live : KeywordsOf(keywords, id) = {<<"f", "o", "o">>, <<"b", "a", "r">>}
  /\ \E id \in Live : Cardinality(KeywordsOf(keywords, id)) = 10

\* C20: created_at is the time of the insert when a record is created, and
\* every update that changes the record's summary or its keywords, one that
\* supplies only keywords too, sets it to the time of the update.
C20_EditsRefreshCreatedAt ==
  [][/\ (last'.op = "insert" /\ last'.err = OK /\ seq' # seq)
          => memories'[last'.res.id].created_at = now
     /\ (last'.op = "update" /\ last'.err = OK)
          => LET id == last'.res.id
             IN  (\/ memories'[id].summary # memories[id].summary
                  \/ KeywordsOf(keywords', id) # KeywordsOf(keywords, id))
                   => memories'[id].created_at = now
    ]_vars

\* An update later than the insert has changed the keywords of a record.
C20_Witness ==
  /\ last.op = "update" /\ last.err = OK /\ now > 0
  /\ KeywordsOf(keywords, last.res.id) # {}
  /\ memories[last.res.id].created_at < now

IsWhitespace(c) == c \in {" ", "\t"}
IsBracket(c) == c \in {"(", ")", "{", "}", "[", "]"}

\* The string without its brackets and its whitespace.
RECURSIVE KeepOthers(_)
KeepOthers(s) ==
  IF s = <<>> THEN <<>>
  ELSE (IF IsBracket(Head(s)) \/ IsWhitespace(Head(s)) THEN <<>> ELSE <<Head(s)>>)
         \o KeepOthers(Tail(s))

\* The string with each pair of double quotes put back to one; a double
\* quote that stands alone becomes a mark no string holds.
RECURSIVE Undouble(_)
Undouble(s) ==
  IF s = <<>> THEN <<>>
  ELSE IF Head(s) = "\""
       THEN IF Len(s) > 1 /\ s[2] = "\""
            THEN <<"\"">> \o Undouble(Tail(Tail(s)))
            ELSE <<"<single>">> \o Undouble(Tail(s))
       ELSE <<Head(s)>> \o Undouble(Tail(s))

\* C22: in what sanitize returns every double quote of the query is doubled,
\* there is no parenthesis, brace or bracket, every run of whitespace is one
\* space, there is no whitespace at either end, and the other characters of
\* the query are all there, in their order.
C22_SanitizeShape ==
  last.op = "sanitize" =>
    LET q == last.res.query
        s == last.res.sanitized
    IN  /\ \A i \in DOMAIN s : ~IsBracket(s[i])
        /\ \A i \in DOMAIN s :
             IsWhitespace(s[i]) =>
               /\ s[i] = " "
               /\ i # 1 /\ i # Len(s)
               /\ ~IsWhitespace(s[i + 1])
        /\ Undouble(KeepOthers(s)) = KeepOthers(q)
        /\ \A i \in DOMAIN q :
             IsWhitespace(q[i]) /\ i > 1 /\ i < Len(q)
               /\ KeepOthers(SubSeq(q, 1, i)) # <<>>
               /\ KeepOthers(SubSeq(q, i, Len(q))) # <<>>
               => \E j \in DOMAIN s :
                    /\ s[j] = " "
                    /\ Undouble(KeepOthers(SubSeq(s, 1, j))) = KeepOthers(SubSeq(q, 1, i))

\* A query with a quote, a bracket and a tab in it was sanitized.
C22_Witness ==
  /\ last.op = "sanitize"
  /\ {"\"", "]", "\t"} \subseteq Range(last.res.query)
  /\ last.res.sanitized = <<"\"", "\"">>

\* Boost lists with repeats, in either case, and with a blank.
BoostListsWide ==
  BoostLists \cup {<< <<"Y">> >>,
                   << <<"y">>, <<"Y">>, <<"y">> >>,
                   << <<"X">>, <<"a">>, <<"x">> >>,
                   << <<" ", "y">> >>}

\* The boost keywords, told apart without regard to case, that are among
\* the keywords of the record.
DistinctBoostMatches(id, b) ==
  {ToLowerCase(b[i]) : i \in DOMAIN b}
    \cap {ToLowerCase(k) : k \in KeywordsOf(keywords, id)}

\* C27: the matched keyword count of a candidate is the number of distinct
\* boost keywords, compared without regard to case, among the keywords of
\* the record; a boost keyword written twice counts once, and without boost
\* keywords the count is 0.
C27_MatchedKeywordCount ==
  /\ \A q \in Queries :
       \A id \in Matching(Db, Sanitize(q)) \cap Live :
         /\ \A b \in BoostListsWide, lambda \in Lambdas :
              SearchRow(Db, id, Sanitize(q), b, SummaryWeightDefault,
                        KeywordWeightDefault, lambda).matched_keywords
                = Cardinality(DistinctBoostMatches(id, b))
         /\ SearchRow(Db, id, Sanitize(q), <<>>, SummaryWeightDefault,
                      KeywordWeightDefault, LambdaDefault).matched_keywords = 0
  /\ last.op = "search" =>
       \A i \in DOMAIN last.res.rows :
         last.res.rows[i].matched_keywords
           <= Cardinality(KeywordsOf(keywords, last.res.rows[i].id))

\* A search with boost keywords has answered a row with a match and a row
\* without one.
C27_Witness ==
  /\ last.op = "search"
  /\ \E i, j \in DOMAIN last.res.rows :
       /\ last.res.rows[i].matched_keywords = 1
       /\ last.res.rows[j].matched_keywords = 0
       /\ KeywordsOf(keywords, last.res.rows[j].id) # {}

\* What a row list says of the candidates: who they are, the relevance
\* score of each, and how many they are.
Candidates(rows) ==
  [pool |-> {<<rows[i].id, rows[i].bm25_score>> : i \in DOMAIN rows},
   total_found |-> Len(rows)]

CandidatesOf(q, b, l, lambda) ==
  {Candidates(rows) :
     rows \in SearchRun(Db, q, b, l, SummaryWeightDefault, KeywordWeightDefault, lambda)}

\* C28: boost keywords and lambda only reorder: on one state of the stores,
\* searches that differ in them alone have the same candidates, the same
\* relevance score for each and the same total.
C28_BoostOnlyReorders ==
  /\ \A q \in Queries, l \in Limits :
       LET plain == CandidatesOf(q, <<>>, l, 0)
       IN  \A b \in BoostLists, lambda \in Lambdas : CandidatesOf(q, b, l, lambda) = plain
  /\ last.op = "search" =>
       /\ last.res.total_found = Len(last.res.rows)
       /\ \A i \in DOMAIN last.res.rows : last.res.rows[i].id \in Live

\* A search whose boost has put a row of worse relevance first has answered
\* two candidates out of three matching records.
C28_Witness ==
  /\ last.op = "search"
  /\ Cardinality(Live) = 3 /\ last.res.total_found = 2
  /\ last.res.rows[1].bm25_score > last.res.rows[2].bm25_score
  /\ last.res.rows[1].matched_keywords > 0

\* What readLimited answers for a path without a file.
MissingResult == ReadLimited(EmptyFn, MissingPath, ReadLimitBytes, TRUE)

\* The latest request was a read of an existing file that failed.
FailedRead ==
  /\ last.op = "fs.readLimited"
  /\ last.res.path \in DOMAIN files
  /\ ~last.res.readOk

C26_FailedInsertLeavesOrphan ==
  [][\A c \in Contents, k \in {<<>>, << <<"x">> >>}, e \in DbErrors :
       LET path == SavePath(files, Slug(<<"A">>) \o S_md, now)
       IN  \/ /\ last'.op = "insert" /\ last'.err = "Failed to insert memory: " \o e
              /\ path \notin DOMAIN files
              /\ path \in DOMAIN files' /\ files'[path] = c
              /\ \A q \in DOMAIN files : files'[q] = files[q]
              /\ dbvars' = dbvars
              /\ \A id \in DOMAIN memories' : memories'[id].file_path # path
           \/ ~InsertMemoryUnder(c, <<"A">>, k, TRUE, e)]_vars

\* An insert has failed in its transaction beside live records, and a file
\* that no record has is in the store.
C26_Witness ==
  /\ last.op = "insert"
  /\ last.err = "Failed to insert memory: SQLITE_FULL"
  /\ Live # {}
  /\ \E q \in DOMAIN files :
       /\ \A id \in Live : memories[id].file_path # q
       /\ \A id \in Live : files[memories[id].file_path] # files[q]

\* The content file of a live record, as a read of its path finds it.
ContentOf(fs, mems, id) == ReadLimited(fs, mems[id].file_path, ReadLimitBytes, TRUE).file_contents

\* C25: a successful insert leaves the submitted content, verbatim, at the
\* path it answers; a successful update with content leaves that content at
\* the record's path; a get answers what the file holds; and the only step
\* that changes what a record that stays live has at its path is a
\* successful update of that very id.
C25_ContentIsLatestSupplied ==
  [][/\ \A c \in Contents, w \in BOOLEAN :
          \/ last'.err # OK
          \/ /\ last'.op = "insert"
             /\ last'.res.id \in DOMAIN memories'
             /\ memories'[last'.res.id].file_path = last'.res.file_path
             /\ ContentOf(files', memories', last'.res.id) = c
          \/ ~InsertMemory(c, <<"A">>, <<>>, w)
     /\ \A id \in Ids, c \in Contents, s \in {None, <<"A">>}, k \in {NoList, <<>>},
           w \in BOOLEAN :
          \/ last'.err # OK
          \/ /\ last'.op = "update" /\ last'.res.id = id
             /\ ContentOf(files', memories', id) = c
          \/ ~UpdateMemory(id, c, s, k, w)
     /\ last'.op = "get" /\ last'.err = OK =>
          /\ last'.res.file_contents = files[last'.res.file_path]
          /\ last'.res.file_contents = ContentOf(files, memories, last'.res.id)
     /\ \A id \in DOMAIN memories \cap DOMAIN memories' :
          ContentOf(files', memories', id) # ContentOf(files, memories, id) =>
            last'.op = "update" /\ last'.err = OK /\ last'.res.id = id]_vars

\* An update has replaced the content of one record beside another record
\* that still has the content of its insert.
C25_Witness ==
  /\ last.op = "update" /\ last.err = OK
  /\ last.res.id \in Live
  /\ ContentOf(files, memories, last.res.id) = <<"c", "2">>
  /\ \E id \in Live : id # last.res.id /\ ContentOf(files, memories, id) = <<"c", "1">>

\* What the index holds for a record: its postings and its size row.
IndexEntry(idx, sizes, id) ==
  <<{p \in idx : p[1] = id}, IF id \in DOMAIN sizes THEN sizes[id] ELSE <<>> >>

\* C30: an update of id, whatever it answers, leaves the set of ids and
\* every record's path as they were; leaves the summary of id as it was when
\* it is given no summary, and every file as it was when it is given no
\* content; and leaves every other record's row, keywords, index entry and
\* file as they were.
C30_UpdateFrame ==
  [][\A id \in Ids, c \in {None, <<"c", "2">>}, s \in {None, <<"a", " ", "1">>},
        k \in {NoList, << <<"y">> >>}, w \in {TRUE} :
       \/ /\ DOMAIN memories' = DOMAIN memories
          /\ \A j \in DOMAIN memories : memories'[j].file_path = memories[j].file_path
          /\ (s = None /\ id \in DOMAIN memories) =>
               memories'[id].summary = memories[id].summary
          /\ c = None => files' = files
          /\ DOMAIN files' = DOMAIN files
          /\ \A j \in DOMAIN memories \ {id} :
               /\ memories'[j] = memories[j]
               /\ KeywordsOf(keywords', j) = KeywordsOf(keywords, j)
               /\ IndexEntry(fts_index', fts_docsize', j) = IndexEntry(fts_index, fts_docsize, j)
               /\ files'[memories[j].file_path] = files[memories[j].file_path]
       \/ ~UpdateMemory(id, c, s, k, w)]_vars

\* An update has replaced content, summary and keywords of one record beside
\* another record that has keywords.
C30_Witness ==
  /\ last.op = "update" /\ last.err = OK
  /\ last.res.id \in Live
  /\ memories[last.res.id].summary = <<"a", " ", "1">>
  /\ files[memories[last.res.id].file_path] = <<"c", "2">>
  /\ KeywordsOf(keywords, last.res.id) = {<<"y">>}
  /\ \E j \in Live : j # last.res.id /\ KeywordsOf(keywords, j) = {<<"x">>}
                       /\ memories[j].summary = <<"A">>

\* C21: an update_memory that goes on after its await and finds its record
\* removed since repo.get does not answer with success: it answers with an
\* error, the row mutation having changed no record.
C21_UpdateOfRemovedRecordFails ==
  [][\A u \in pending, w \in BOOLEAN :
       \/ u.op # "update"
       \/ u.id \in DOMAIN memories
       \/ /\ last'.op = "update"
          /\ last'.err # OK
          /\ last'.err \in {"Update failed", "SQLITE_CONSTRAINT_FOREIGNKEY",
                            "SQLITE_CORRUPT_VTAB", "Failed to write file: EIO"}
          /\ dbvars' = dbvars
       \/ ~UpdateMemoryAfterAwait(u, w)]_vars

\* An update whose record was removed while it was at its await has
\* answered that the update failed, beside one that is still at its await.
C21_Witness ==
  /\ last.op = "update"
  /\ last.err = "Update failed"
  /\ \E u \in pending : u.id \notin Live

\* C23, as stated: every operation runs from its start to its end with no
\* step of another operation between: while an update_memory is between its
\* existence check and its transaction, nothing but its own continuation
\* changes the stores or starts.
C23_OperationsRunToCompletion ==
  [][pending # {} =>
       \E u \in pending, w \in BOOLEAN : UpdateMemoryAfterAwait(u, w)]_vars

\* C24: two writers with the same hint that probe on the same day before
\* either writes hold the same candidate; and a writer whose candidate has
\* come to exist since its probe writes to it all the same: its content
\* replaces the other's, no file is added that keeps what was there, and
\* its answer is a success that names that path.
C24_RacingWritersOverwrite ==
  [][/\ \A u, v \in pending :
          \/ u.op # "saveDated" \/ v.op # "saveDated"
          \/ u.file_path.dir # v.file_path.dir
          \/ u.file_path \in DOMAIN files \/ v.file_path \in DOMAIN files
          \/ u.file_path = v.file_path
     /\ \A u \in pending :
          (u.op = "saveDated" /\ pending' = pending \ {u}
             /\ u.file_path \in DOMAIN files) =>
            /\ DOMAIN files' = DOMAIN files
            /\ files'[u.file_path] = u.content
            /\ \A q \in DOMAIN files \ {u.file_path} : files'[q] = files[q]
            /\ last' = [op |-> "fs.saveDated", err |-> OK,
                        res |-> [id |-> 0, file_path |-> u.file_path]]]_vars

\* One writer has written its content to the path that another writer, which
\* probed before that write, still holds as its candidate with other content.
C24_Witness ==
  /\ last.op = "fs.saveDated" /\ last.err = OK
  /\ \E u \in pending :
       /\ u.op = "saveDated"
       /\ u.file_path = last.res.file_path
       /\ u.file_path \in DOMAIN files
       /\ files[u.file_path] # u.content

\* The errors SQLite raises for a keyword row of an id without a record.
KeywordRowErrors == {"SQLITE_CONSTRAINT_FOREIGNKEY", "SQLITE_CORRUPT_VTAB"}

IdsInUse(kws, idx, sizes) ==
  {r[1] : r \in kws} \cup {p[1] : p \in idx} \cup DOMAIN sizes

\* C32: the sequence of the table never goes down, every id an insert
\* returns is above the sequence as it was, which no id returned before
\* exceeds, and is the only row the insert adds; no keyword row and no index
\* entry, of a live record or left by a deleted one, is under that id
\* before the insert; and no step other than an insert adds a row.
C32_IdsNeverReused ==
  [][/\ seq' >= seq
     /\ DOMAIN memories \subseteq 1..seq
     /\ IdsInUse(keywords, fts_index, fts_docsize) \subseteq 1..seq
     /\ \A id \in DOMAIN memories' \ DOMAIN memories :
          /\ id > seq /\ id = seq'
          /\ DOMAIN memories' = DOMAIN memories \cup {id}
          /\ id \notin IdsInUse(keywords, fts_index, fts_docsize)
          /\ last'.op = "insert" /\ last'.err = OK /\ last'.res.id = id
     /\ (last' # last /\ last'.op = "insert" /\ last'.err = OK) =>
          last'.res.id \in DOMAIN memories' \ DOMAIN memories]_vars

\* An insert has returned an id after a record with keywords was deleted:
\* the index still has postings under the deleted id, and the new record,
\* under its own id, has none of them.
C32_Witness ==
  /\ last.op = "insert" /\ last.err = OK
  /\ last.res.id \in Live
  /\ \E old \in Deleted :
       /\ old < last.res.id
       /\ <<old, "keywords", <<"x">> >> \in fts_index
       /\ <<last.res.id, "keywords", <<"x">> >> \notin fts_index

=============================================================================
